---- MODULE Spec2Model ----
(***************************************************************************)
(* ForkLion: the AI-assisted evolution engine (src/src/evolution.py) and   *)
(* the SVG visualizer (src/src/visualizer.py) as state machines.           *)
(*                                                                         *)
(* A call is modelled as one step: a state holds the operation that is     *)
(* called (op), its arguments (dna, arg), and, once the call has run, its  *)
(* outcome (ret) together with the calls it made on its collaborators      *)
(* (providerLog, fallbackLog).  calls counts the calls of a run, and       *)
(* rendered holds the earlier seed derivations of a run with their         *)
(* outcomes.                                                               *)
(* heap holds the Trait objects of the runs that follow object identity:   *)
(* there a record's traits map holds references into it.                   *)
(*                                                                         *)
(* Text is a sequence of atoms.  An atom is a TLA+ string that stands for  *)
(* the characters it spells: the JSON punctuation, the double quote, the   *)
(* backtick and the blank are atoms of one character, a word atom is a run *)
(* of letters.  The text an atom sequence stands for is the concatenation  *)
(* of its atoms.                                                           *)
(***************************************************************************)
EXTENDS Integers, Sequences, FiniteSets, TLC

VARIABLES pc, op, dna, arg, ret, providerLog, fallbackLog, calls, rendered, heap

vars == <<pc, op, dna, arg, ret, providerLog, fallbackLog, calls, rendered, heap>>

(***************************************************************************)
(* Bounds of the model.                                                    *)
(***************************************************************************)
\* longest changes list of a generated change-set
MaxChanges == 3
\* longest raw (unstructured) response text, in atoms
MaxRawLen == 4
\* most calls chained on one record in a run
MaxCalls == 2

(***************************************************************************)
(* JSON values, as json.loads returns them: tagged records.                *)
(***************************************************************************)
JNull == [t |-> "null"]
JNum(n) == [t |-> "num", n |-> n]
JStr(s) == [t |-> "str", s |-> s]
JArr(a) == [t |-> "arr", a |-> a]
JObj(o) == [t |-> "obj", o |-> o]

\* the dict with no key
EmptyDict == [k \in {} |-> JNull]

\* the keys of a dict
Keys(o) == IF o = EmptyDict THEN {} ELSE DOMAIN o

(***************************************************************************)
(* Atoms.                                                                  *)
(***************************************************************************)
LBrace == "{"
RBrace == "}"
LBracket == "["
RBracket == "]"
Colon == ":"
Comma == ","
Quote == "\""
\* the backtick; a TLA+ string cannot hold U+0060, the apostrophe stands for it
Tick == "'"
Blank == " "
Digit == "5"
JsonWord == "json"
NullWord == "null"

RECURSIVE Concat(_)
\* str.join("", atoms): the string an atom sequence spells
Concat(atoms) ==
    IF atoms = <<>> THEN "" ELSE Head(atoms) \o Concat(Tail(atoms))

(***************************************************************************)
(* str.replace, str.strip, str.find, str.rfind and slicing, on atoms.      *)
(***************************************************************************)
IsAt(s, i, pat) ==
    /\ i + Len(pat) - 1 <= Len(s)
    /\ \A k \in 1..Len(pat) : s[i + k - 1] = pat[k]

RECURSIVE RemoveFrom(_, _, _)
\* s[i..] with every non-overlapping occurrence of pat, scanned from the
\* left, removed: what precedes the next occurrence is kept and the scan
\* resumes after it
RemoveFrom(s, i, pat) ==
    LET hits == {j \in i..Len(s) : IsAt(s, j, pat)}
    IN  IF hits = {} THEN SubSeq(s, i, Len(s))
        ELSE LET next == CHOOSE j \in hits : \A k \in hits : j <= k
             IN  SubSeq(s, i, next - 1) \o RemoveFrom(s, next + Len(pat), pat)

\* s.replace(pat, "")
RemoveAll(s, pat) == RemoveFrom(s, 1, pat)

FenceJson == <<Tick, Tick, Tick, JsonWord>>
Fence == <<Tick, Tick, Tick>>

\* s.strip()
Strip(s) ==
    LET solid == {i \in 1..Len(s) : s[i] # Blank}
    IN  IF solid = {} THEN <<>>
        ELSE SubSeq(s, CHOOSE i \in solid : \A j \in solid : i <= j,
                       CHOOSE i \in solid : \A j \in solid : j <= i)

\* s.find(ch), 0-based, -1 when absent
Find(s, ch) ==
    LET hits == {i \in 1..Len(s) : s[i] = ch}
    IN  IF hits = {} THEN -1
        ELSE (CHOOSE i \in hits : \A j \in hits : i <= j) - 1

\* s.rfind(ch), 0-based, -1 when absent
RFind(s, ch) ==
    LET hits == {i \in 1..Len(s) : s[i] = ch}
    IN  IF hits = {} THEN -1
        ELSE (CHOOSE i \in hits : \A j \in hits : j <= i) - 1

\* s[start:end] for 0-based start >= 0 and end >= 0
Slice(s, start, end) == SubSeq(s, start + 1, IF end <= Len(s) THEN end ELSE Len(s))

(***************************************************************************)
(* json.loads on atoms.  A parse step returns [ok, v, p]: whether a value  *)
(* was read, the value, and the 1-based position after it.                 *)
(***************************************************************************)
Fail == [ok |-> FALSE, v |-> JNull, p |-> 0]
Got(v, p) == [ok |-> TRUE, v |-> v, p |-> p]

\* the first position from i on that holds no blank, Len(s) + 1 if none
SkipWs(s, i) ==
    LET solid == {j \in i..Len(s) : s[j] # Blank}
    IN  IF solid = {} THEN (IF i > Len(s) THEN i ELSE Len(s) + 1)
        ELSE CHOOSE j \in solid : \A k \in solid : j <= k

\* a string literal starting at the quote s[i]
ParseString(s, i) ==
    LET closing == {k \in (i + 1)..Len(s) : s[k] = Quote}
    IN  IF closing = {} THEN Fail
        ELSE LET j == CHOOSE k \in closing : \A m \in closing : k <= m
             IN  Got(JStr(Concat(SubSeq(s, i + 1, j - 1))), j + 1)

RECURSIVE ParseDigits(_, _, _)
\* the integer literal whose digits start at s[i], acc the value so far
ParseDigits(s, i, acc) ==
    IF i <= Len(s) /\ s[i] = Digit
    THEN ParseDigits(s, i + 1, acc * 10 + 5)
    ELSE Got(JNum(acc), i)

RECURSIVE ParseValue(_, _)
RECURSIVE ParseMembers(_, _, _)
RECURSIVE ParseItems(_, _, _)

\* the members of an object after "{" or ",": s[i] must open a key
ParseMembers(s, i, acc) ==
    IF ~(i <= Len(s) /\ s[i] = Quote) THEN Fail
    ELSE LET key == ParseString(s, i)
         IN  IF ~key.ok THEN Fail
             ELSE LET c == SkipWs(s, key.p)
                  IN  IF ~(c <= Len(s) /\ s[c] = Colon) THEN Fail
                      ELSE LET val == ParseValue(s, SkipWs(s, c + 1))
                           IN  IF ~val.ok THEN Fail
                               ELSE LET e == SkipWs(s, val.p)
                                        \* a repeated key keeps its last value
                                        dict == (key.v.s :> val.v) @@ acc
                                    IN  IF e > Len(s) THEN Fail
                                        ELSE IF s[e] = RBrace THEN Got(JObj(dict), e + 1)
                                        ELSE IF s[e] = Comma
                                             THEN ParseMembers(s, SkipWs(s, e + 1), dict)
                                        ELSE Fail

\* the items of an array after "[" or ","
ParseItems(s, i, acc) ==
    LET val == ParseValue(s, i)
    IN  IF ~val.ok THEN Fail
        ELSE LET e == SkipWs(s, val.p)
                 list == Append(acc, val.v)
             IN  IF e > Len(s) THEN Fail
                 ELSE IF s[e] = RBracket THEN Got(JArr(list), e + 1)
                 ELSE IF s[e] = Comma THEN ParseItems(s, SkipWs(s, e + 1), list)
                 ELSE Fail

ParseValue(s, i) ==
    IF i > Len(s) THEN Fail
    ELSE IF s[i] = Quote THEN ParseString(s, i)
    ELSE IF s[i] = Digit THEN ParseDigits(s, i, 0)
    ELSE IF s[i] = NullWord THEN Got(JNull, i + 1)
    ELSE IF s[i] = LBrace
         THEN LET n == SkipWs(s, i + 1)
              IN  IF n <= Len(s) /\ s[n] = RBrace THEN Got(JObj(EmptyDict), n + 1)
                  ELSE ParseMembers(s, n, EmptyDict)
    ELSE IF s[i] = LBracket
         THEN LET n == SkipWs(s, i + 1)
              IN  IF n <= Len(s) /\ s[n] = RBracket THEN Got(JArr(<<>>), n + 1)
                  ELSE ParseItems(s, n, <<>>)
    ELSE Fail

\* json.loads(s): [ok, v]; ok is FALSE where json.loads raises
JsonLoads(s) ==
    LET r == ParseValue(s, SkipWs(s, 1))
    IN  IF r.ok /\ SkipWs(s, r.p) = Len(s) + 1 THEN r ELSE Fail

(***************************************************************************)
(* The outcome of a call: it returns a value or raises.                    *)
(***************************************************************************)
Return(v) == [kind |-> "return", value |-> v]
Raise(e) == [kind |-> "raise", exc |-> e]
NoRet == [kind |-> "none"]

(***************************************************************************)
(* The genetic record.  TraitCategory, Rarity, Trait and LionDNA live in   *)
(* src.genetics; their shape is the one section 3 of the specification     *)
(* and the evolution prompt give.                                          *)
(***************************************************************************)
\* the members of TraitCategory, in definition order
CategoryOrder ==
    <<"body_color", "face_expression", "accessory", "pattern", "background", "special">>

TraitCategory == {CategoryOrder[i] : i \in 1..Len(CategoryOrder)}

Rarity == {"common", "uncommon", "rare", "legendary"}

Trait(category, value, rarity) ==
    [category |-> category, value |-> value, rarity |-> rarity]

\* Trait's validation of its value field: a str
TraitValueValid(v) == v.t = "str"

\* the hex digit a trait value contributes to the content hash
ValueCode(v) ==
    CASE v \in {"brown", "happy", "none", "solid", "white"} -> 1
      [] v \in {"golden", "sleepy", "crown", "stripes", "blue_sky"} -> 2
      [] v \in {"rainbow", "cool", "halo", "spots", "multiverse"} -> 3
      [] v \in {"silver", "wise", "wings", "stars", "space"} -> 4
      [] OTHER -> 15

\* the content hash: a digest over the trait values, as hex digits
ContentHash(traits) ==
    <<0, 0, 0, 0>> \o [i \in 1..Len(CategoryOrder) |-> ValueCode(traits[CategoryOrder[i]].value)]

\* LionDNA(generation=, parent_id=, traits=, mutation_count=, birth_timestamp=)
LionDNA(generation, parent_id, traits, mutation_count, birth_timestamp) ==
    [generation |-> generation, parent_id |-> parent_id, traits |-> traits,
     mutation_count |-> mutation_count, birth_timestamp |-> birth_timestamp,
     dna_hash |-> ContentHash(traits)]

(***************************************************************************)
(* EvolutionAgent._parse_ai_response                                       *)
(***************************************************************************)
\* the change-set returned when the response cannot be parsed
DefaultDecision ==
    JObj(("changes" :> JArr(<<>>)) @@ ("evolution_story" :> JStr("No changes today.")))

\* the body of the try block: what it returns, or the exception it raises
ParseBody(response_text) ==
    LET clean_text == Strip(RemoveAll(RemoveAll(response_text, FenceJson), Fence))
        start == Find(clean_text, LBrace)
        end == RFind(clean_text, RBrace) + 1
    IN  IF start # -1 /\ end # -1
        THEN LET loaded == JsonLoads(Slice(clean_text, start, end))
             IN  IF loaded.ok THEN Return(loaded.v) ELSE Raise("JSONDecodeError")
        ELSE Raise("ValueError")

\* a mutant: the except clause re-raises
ParseAIResponseUncaught(response_text) == ParseBody(response_text)

\* a mutant: the span ends at the first closing brace
ParseAIResponseFirstBrace(response_text) ==
    LET clean_text == Strip(RemoveAll(RemoveAll(response_text, FenceJson), Fence))
        start == Find(clean_text, LBrace)
        end == Find(clean_text, RBrace) + 1
    IN  IF start # -1 /\ end # -1 /\ JsonLoads(Slice(clean_text, start, end)).ok
        THEN Return(JsonLoads(Slice(clean_text, start, end)).v)
        ELSE Return(DefaultDecision)

ParseAIResponse(response_text) ==
    LET body == ParseBody(response_text)
    IN  IF body.kind = "raise" THEN Return(DefaultDecision) ELSE body

\* d[k] = v on a dict: the key is added when the dict does not hold it
SetItem(d, k, v) == [x \in DOMAIN d \cup {k} |-> IF x = k THEN v ELSE d[x]]

(***************************************************************************)
(* EvolutionAgent._apply_evolution                                         *)
(***************************************************************************)
\* decision.get("changes", [])
ChangesOf(decision) ==
    IF "changes" \in Keys(decision.o) THEN decision.o["changes"] ELSE JArr(<<>>)

\* whether the for loop can iterate over v (a number or None raises TypeError)
Iterable(v) == v.t \in {"arr", "str", "obj"}

\* the entries the loop visits; the characters of a str and the keys of a
\* dict are strs, which no iteration applies, so they are left out
EntriesOf(v) == IF v.t = "arr" THEN v.a ELSE <<>>

\* whether the try block of one iteration runs to its end
ChangeApplies(change) ==
    /\ change.t = "obj"
    /\ {"category", "new_value", "new_rarity"} \subseteq Keys(change.o)
    /\ change.o["category"].t = "str"
    /\ change.o["category"].s \in TraitCategory
    /\ change.o["new_rarity"].t = "str"
    /\ change.o["new_rarity"].s \in Rarity
    /\ TraitValueValid(change.o["new_value"])

\* a mutant: the first failing change ends the loop
RECURSIVE ApplyChangesAbort(_, _, _)
ApplyChangesAbort(new_traits, mutations, entries) ==
    IF entries = <<>> \/ ~ChangeApplies(Head(entries))
    THEN [traits |-> new_traits, mutations |-> mutations]
    ELSE LET change == Head(entries)
             category == change.o["category"].s
         IN  ApplyChangesAbort(
                 SetItem(new_traits, category,
                         Trait(category, change.o["new_value"].s, change.o["new_rarity"].s)),
                 mutations + 1, Tail(entries))

\* a mutant: a category keeps the first change that names it
RECURSIVE ApplyChangesFirstWins(_, _, _)
ApplyChangesFirstWins(new_traits, mutations, entries) ==
    IF entries = <<>> THEN [traits |-> new_traits, mutations |-> mutations]
    ELSE LET change == Head(entries)
             rest == ApplyChangesFirstWins(new_traits, mutations, Tail(entries))
         IN  IF ChangeApplies(change)
             THEN [traits |-> SetItem(rest.traits, change.o["category"].s,
                                      Trait(change.o["category"].s, change.o["new_value"].s,
                                            change.o["new_rarity"].s)),
                   mutations |-> rest.mutations + 1]
             ELSE rest

\* a mutant: the category is used as it is written, without resolving it
\* against TraitCategory
RECURSIVE ApplyChangesUnresolved(_, _, _)
ApplyChangesUnresolved(new_traits, mutations, entries) ==
    IF entries = <<>> THEN [traits |-> new_traits, mutations |-> mutations]
    ELSE LET change == Head(entries)
         IN  IF /\ change.t = "obj"
                /\ {"category", "new_value", "new_rarity"} \subseteq Keys(change.o)
                /\ change.o["category"].t = "str"
                /\ change.o["new_rarity"].t = "str"
                /\ change.o["new_rarity"].s \in Rarity
                /\ TraitValueValid(change.o["new_value"])
             THEN LET category == change.o["category"].s
                  IN  ApplyChangesUnresolved(
                          SetItem(new_traits, category,
                                  Trait(category, change.o["new_value"].s,
                                        change.o["new_rarity"].s)),
                          mutations + 1, Tail(entries))
             ELSE ApplyChangesUnresolved(new_traits, mutations, Tail(entries))

\* the for loop: new_traits and mutations after the entries, in list order
RECURSIVE ApplyChanges(_, _, _)
ApplyChanges(new_traits, mutations, entries) ==
    IF entries = <<>> THEN [traits |-> new_traits, mutations |-> mutations]
    ELSE LET change == Head(entries)
         IN  IF ChangeApplies(change)
             THEN LET category == change.o["category"].s
                  IN  ApplyChanges(
                          SetItem(new_traits, category,
                                  Trait(category, change.o["new_value"].s,
                                        change.o["new_rarity"].s)),
                          mutations + 1, Tail(entries))
             ELSE ApplyChanges(new_traits, mutations, Tail(entries))

\* a mutant: the count of the new record is the number applied in this call
ApplyEvolutionResetsCount(d, decision) ==
    IF ~Iterable(ChangesOf(decision)) THEN Raise("TypeError")
    ELSE LET done == ApplyChanges(d.traits, 0, EntriesOf(ChangesOf(decision)))
         IN  Return(LionDNA(d.generation, d.parent_id, done.traits,
                            done.mutations, d.birth_timestamp))

\* a mutant: the new record is made a child of the old one, as breeding does
ApplyEvolutionAsChild(d, decision) ==
    IF ~Iterable(ChangesOf(decision)) THEN Raise("TypeError")
    ELSE LET done == ApplyChanges(d.traits, 0, EntriesOf(ChangesOf(decision)))
         IN  Return(LionDNA(d.generation + 1, "self", done.traits,
                            d.mutation_count + done.mutations, d.birth_timestamp))

\* _apply_evolution(dna, decision): the new record, or the error raised
ApplyEvolution(d, decision) ==
    IF ~Iterable(ChangesOf(decision)) THEN Raise("TypeError")
    ELSE LET done == ApplyChanges(d.traits, 0, EntriesOf(ChangesOf(decision)))
         IN  Return(LionDNA(d.generation, d.parent_id, done.traits,
                            d.mutation_count + done.mutations, d.birth_timestamp))

(***************************************************************************)
(* Response texts.  A source value is a JSON document before it is         *)
(* written down: its strings are atom sequences.  Serialize writes it as   *)
(* text, Decode is the value a JSON reader must return for that text.      *)
(***************************************************************************)
SNull == [t |-> "null"]
SNum == [t |-> "num"]
SStr(atoms) == [t |-> "str", atoms |-> atoms]
SArr(items) == [t |-> "arr", items |-> items]
\* members: a sequence of <<key atoms, source value>>
SObj(members) == [t |-> "obj", members |-> members]
NoSrc == [t |-> "none"]

RECURSIVE Serialize(_, _)
RECURSIVE SerializeItems(_, _, _)
RECURSIVE SerializeMembers(_, _, _)
\* the texts of items[i..], a comma before each but the first
SerializeItems(items, i, sep) ==
    IF i > Len(items) THEN <<>>
    ELSE (IF i = 1 THEN <<>> ELSE <<Comma>> \o sep)
         \o Serialize(items[i], sep)
         \o SerializeItems(items, i + 1, sep)

\* the texts of members[i..], each "key":value
SerializeMembers(members, i, sep) ==
    IF i > Len(members) THEN <<>>
    ELSE (IF i = 1 THEN <<>> ELSE <<Comma>> \o sep)
         \o <<Quote>> \o members[i][1] \o <<Quote, Colon>> \o sep
         \o Serialize(members[i][2], sep)
         \o SerializeMembers(members, i + 1, sep)

\* the text of a source value; sep is written after each colon and comma
Serialize(src, sep) ==
    CASE src.t = "null" -> <<NullWord>>
      [] src.t = "num" -> <<Digit>>
      [] src.t = "str" -> <<Quote>> \o src.atoms \o <<Quote>>
      [] src.t = "arr" -> <<LBracket>> \o SerializeItems(src.items, 1, sep) \o <<RBracket>>
      [] src.t = "obj" -> <<LBrace>> \o SerializeMembers(src.members, 1, sep) \o <<RBrace>>

RECURSIVE Decode(_)
RECURSIVE DecodeMembers(_, _)
DecodeMembers(members, i) ==
    IF i > Len(members) THEN EmptyDict
    ELSE DecodeMembers(members, i + 1)
         @@ (Concat(members[i][1]) :> Decode(members[i][2]))

\* the JSON value a source value denotes
Decode(src) ==
    CASE src.t = "null" -> JNull
      [] src.t = "num" -> JNum(5)
      [] src.t = "str" -> JStr(Concat(src.atoms))
      [] src.t = "arr" -> JArr([i \in 1..Len(src.items) |-> Decode(src.items[i])])
      [] src.t = "obj" -> JObj(DecodeMembers(src.members, 1))

\* one proposed change of the wire format
ChangeSrc(category, new_value, new_rarity) ==
    SObj(<< <<(<<"category">>), SStr(<<category>>)>>,
            <<(<<"new_value">>), SStr(new_value)>>,
            <<(<<"new_rarity">>), SStr(<<new_rarity>>)>>,
            <<(<<"reason">>), SStr(<<"x">>)>> >>)

\* a change-set of the wire format
DecisionSrc(changes, story) ==
    SObj(<< <<(<<"changes">>), changes>>, <<(<<"evolution_story">>), SStr(story)>> >>)

GoldenChange == ChangeSrc("body_color", <<"golden">>, "uncommon")
\* a value outside the vocabulary of its category
NeonChange == ChangeSrc("body_color", <<"neon">>, "legendary")
StripesChange == ChangeSrc("pattern", <<"stripes">>, "rare")
\* a rarity change that keeps the value
RarityOnlyChange == ChangeSrc("body_color", <<"brown">>, "rare")
UnknownCategoryChange == ChangeSrc("tail", <<"long">>, "common")
UnknownRarityChange == ChangeSrc("body_color", <<"silver">>, "mythic")
MissingValueChange ==
    SObj(<< <<(<<"category">>), SStr(<<"pattern">>)>>,
            <<(<<"new_rarity">>), SStr(<<"rare">>)>> >>)

\* the sequences over S of length at most n
SeqsUpTo(S, n) == UNION {[1..k -> S] : k \in 0..n}

\* payloads that parse as JSON objects and deviate from the wire format
DeviantSrcs ==
    { SObj(<<>>),
      SObj(<< <<(<<"evolution_story">>), SStr(<<"s">>)>> >>),
      SObj(<< <<(<<"changes">>), SArr(<<>>)>> >>),
      DecisionSrc(SNum, <<"s">>),
      DecisionSrc(SNull, <<"s">>),
      DecisionSrc(SStr(<<"golden">>), <<"s">>),
      DecisionSrc(SArr(<<MissingValueChange>>), <<"s">>) }

(***************************************************************************)
(* The records the calls are given.                                        *)
(***************************************************************************)
BaseTraits ==
    [c \in TraitCategory |->
        Trait(c,
              CASE c = "body_color" -> "brown"
                [] c = "face_expression" -> "happy"
                [] c = "pattern" -> "solid"
                [] c = "background" -> "white"
                [] OTHER -> "none",
              "common")]

InitialDNAs ==
    { LionDNA(0, "none", BaseTraits, 0, 1000),
      LionDNA(2, "parent", [BaseTraits EXCEPT !["pattern"] = Trait("pattern", "spots", "rare")],
              3, 2000) }

(***************************************************************************)
(* Calls of _parse_ai_response on a response text.                         *)
(***************************************************************************)
\* text around the payload: words, blanks and code fences, no brace
Prefixes ==
    { <<>>, <<"noise", Blank>>, <<Tick, Tick, Tick, JsonWord, Blank>>, <<Tick, Tick, Tick>> }
Suffixes == { <<>>, <<Blank, Tick, Tick, Tick>>, <<Blank, "trailing">> }
Separators == { <<>>, <<Blank>> }

\* narratives: plain, and one that quotes a code fence
Stories == { <<"s">>, <<"a", Tick, Tick, Tick, "b">> }

ParseChangeSrcs == {GoldenChange, UnknownCategoryChange, SNum}

ParsePayloadSrcs ==
    {DecisionSrc(SArr(l), st) : l \in SeqsUpTo(ParseChangeSrcs, MaxChanges), st \in Stories}
    \cup DeviantSrcs

RawAtoms == {LBrace, RBrace, Quote, Colon, Digit, Tick, Blank, "x"}

WrappedArg(pre, src, sep, post) ==
    [text |-> pre \o Serialize(src, sep) \o post, src |-> src, pre |-> pre, post |-> post]

ParseArgs ==
    {WrappedArg(pre, src, sep, post) :
        pre \in Prefixes, src \in ParsePayloadSrcs, sep \in Separators, post \in Suffixes}
    \cup {[text |-> raw, src |-> NoSrc, pre |-> <<>>, post |-> <<>>] :
            raw \in SeqsUpTo(RawAtoms, MaxRawLen)}

InitParse ==
    /\ pc = "called"
    /\ op = "parse"
    /\ dna \in {LionDNA(0, "none", BaseTraits, 0, 1000)}
    /\ arg \in ParseArgs
    /\ ret = NoRet
    /\ providerLog = <<>>
    /\ fallbackLog = <<>>
    /\ calls = 0
    /\ rendered = <<>>
    /\ heap = <<>>

\* agent._parse_ai_response(arg.text)
ParseAIResponseCall ==
    /\ pc = "called"
    /\ op = "parse"
    /\ ret' = ParseAIResponse(arg.text)
    /\ pc' = "returned"
    /\ UNCHANGED <<op, dna, arg, providerLog, fallbackLog, calls, rendered, heap>>

NextParse == ParseAIResponseCall

SpecParse == InitParse /\ [][NextParse]_vars

(***************************************************************************)
(* Claims about _parse_ai_response, under SpecParse.                       *)
(***************************************************************************)
ParseReturned == pc = "returned" /\ op = "parse"

Opens(text) == {i \in 1..Len(text) : text[i] = LBrace}
Closes(text) == {i \in 1..Len(text) : text[i] = RBrace}
FirstOpen(text) == CHOOSE i \in Opens(text) : \A j \in Opens(text) : i <= j
LastClose(text) == CHOOSE i \in Closes(text) : \A j \in Closes(text) : j <= i

NoOpeningBrace(text) == Opens(text) = {}
NoClosingBrace(text) == Closes(text) = {}
ClosingOnlyBeforeOpening(text) ==
    /\ Opens(text) # {}
    /\ Closes(text) # {}
    /\ LastClose(text) < FirstOpen(text)
\* the span from the first "{" to the last "}" of the text without its
\* fence markers is not a JSON document
SpanNotJson(text) ==
    LET bare == RemoveAll(RemoveAll(text, FenceJson), Fence)
    IN  /\ Opens(bare) # {}
        /\ Closes(bare) # {}
        /\ FirstOpen(bare) < LastClose(bare)
        /\ ~JsonLoads(SubSeq(bare, FirstOpen(bare), LastClose(bare))).ok

NothingToParse(text) ==
    \/ NoOpeningBrace(text)
    \/ NoClosingBrace(text)
    \/ ClosingOnlyBeforeOpening(text)
    \/ SpanNotJson(text)

\* C4: _parse_ai_response raises for no text, and returns the empty
\* change-set {changes: [], evolution_story: "No changes today."} when the
\* text has no opening brace, no closing brace, a closing brace only before
\* the opening brace, or a brace-delimited span that is not valid JSON.
C4_ParseFailsSoft ==
    ParseReturned =>
        /\ ret.kind = "return"
        /\ NothingToParse(arg.text) =>
              ret.value = [t |-> "obj",
                           o |-> [changes |-> [t |-> "arr", a |-> <<>>],
                                  evolution_story |-> [t |-> "str", s |-> "No changes today."]]]

\* C4 witness: a closing brace only before the opening brace, soft-failed
C4_Witness ==
    /\ ParseReturned
    /\ ClosingOnlyBeforeOpening(arg.text)
    /\ ret = Return(DefaultDecision)

\* the wire format of section 6: {changes: [{category, new_value, new_rarity,
\* reason: strings}, ...], evolution_story: string}
IsStr(v) == v.t = "str"
WireChange(v) ==
    /\ v.t = "obj"
    /\ {"category", "new_value", "new_rarity", "reason"} \subseteq Keys(v.o)
    /\ \A k \in {"category", "new_value", "new_rarity", "reason"} : IsStr(v.o[k])
WireFormat(v) ==
    /\ v.t = "obj"
    /\ {"changes", "evolution_story"} \subseteq Keys(v.o)
    /\ v.o["changes"].t = "arr"
    /\ \A i \in 1..Len(v.o["changes"].a) : WireChange(v.o["changes"].a[i])
    /\ IsStr(v.o["evolution_story"])

\* C5: for a response text whose payload deviates from the wire format,
\* _parse_ai_response returns the empty change-set with the default narrative.
C5_DeviationFailsSoft ==
    (ParseReturned /\ arg.src # NoSrc /\ ~WireFormat(Decode(arg.src))) =>
        ret = Return(DefaultDecision)

NoBrace(text) == \A i \in 1..Len(text) : text[i] \notin {LBrace, RBrace}

\* C8: for a text in which a well-formed JSON object is surrounded by
\* brace-free noise and optional fence markers, _parse_ai_response returns
\* exactly that object.
C8_ReturnsTheObject ==
    (ParseReturned /\ arg.src # NoSrc /\ NoBrace(arg.pre) /\ NoBrace(arg.post)) =>
        ret = Return(Decode(arg.src))

\* the atoms of every string of a source value
RECURSIVE StringsOf(_)
StringsOf(src) ==
    CASE src.t = "str" -> {src.atoms}
      [] src.t = "arr" -> UNION {StringsOf(src.items[i]) : i \in 1..Len(src.items)}
      [] src.t = "obj" ->
            UNION {{src.members[i][1]} \cup StringsOf(src.members[i][2]) :
                      i \in 1..Len(src.members)}
      [] OTHER -> {}

HasFence(atoms) == \E i \in 1..Len(atoms) : IsAt(atoms, i, Fence)

\* C8, where it holds: the object is returned when none of its strings
\* holds a fence marker
C8_ReturnsFenceFreeObject ==
    (ParseReturned /\ arg.src # NoSrc /\ \A x \in StringsOf(arg.src) : ~HasFence(x)) =>
        ret = Return(Decode(arg.src))

(***************************************************************************)
(* Calls of _apply_evolution, each feeding on the previous result.         *)
(***************************************************************************)
ApplyChangeSrcs ==
    {GoldenChange, NeonChange, StripesChange, UnknownCategoryChange,
     UnknownRarityChange, MissingValueChange, SNum}

\* the decisions a first call is given
ApplyDecisions ==
    {Decode(DecisionSrc(SArr(l), <<"s">>)) : l \in SeqsUpTo(ApplyChangeSrcs, MaxChanges)}
    \cup {Decode(src) : src \in DeviantSrcs}

\* the decisions of the calls that follow
FollowUpDecisions ==
    {Decode(DecisionSrc(SArr(l), <<"s">>)) : l \in SeqsUpTo(ApplyChangeSrcs, 1)}

InitApply ==
    /\ pc = "called"
    /\ op = "apply"
    /\ dna \in InitialDNAs
    /\ arg \in {[decision |-> d] : d \in ApplyDecisions}
    /\ ret = NoRet
    /\ providerLog = <<>>
    /\ fallbackLog = <<>>
    /\ calls = 1
    /\ rendered = <<>>
    /\ heap = <<>>

\* agent._apply_evolution(dna, arg.decision)
ApplyEvolutionCall ==
    /\ pc = "called"
    /\ op = "apply"
    /\ ret' = ApplyEvolution(dna, arg.decision)
    /\ pc' = "returned"
    /\ UNCHANGED <<op, dna, arg, providerLog, fallbackLog, calls, rendered, heap>>

\* the caller passes the returned record to the next call
ApplyAgain ==
    /\ pc = "returned"
    /\ op = "apply"
    /\ ret.kind = "return"
    /\ calls < MaxCalls
    /\ dna' = ret.value
    /\ arg' \in {[decision |-> d] : d \in FollowUpDecisions}
    /\ ret' = NoRet
    /\ pc' = "called"
    /\ calls' = calls + 1
    /\ UNCHANGED <<op, providerLog, fallbackLog, rendered, heap>>

NextApply == ApplyEvolutionCall \/ ApplyAgain

SpecApply == InitApply /\ [][NextApply]_vars

(***************************************************************************)
(* Claims about _apply_evolution, under SpecApply.                         *)
(***************************************************************************)
ApplyReturned == pc = "returned" /\ op = "apply" /\ ret.kind = "return"

\* the changes list the call was given
GivenChanges ==
    IF "changes" \in Keys(arg.decision.o) THEN arg.decision.o["changes"].a ELSE <<>>

\* the call was given a changes list, or none
ChangesListed ==
    "changes" \in Keys(arg.decision.o) => arg.decision.o["changes"].t = "arr"

\* a change resolves: a well-formed entry whose category and rarity are
\* names of their vocabularies
Resolves(change) ==
    /\ change.t = "obj"
    /\ \A k \in {"category", "new_value", "new_rarity"} :
          k \in Keys(change.o) /\ change.o[k].t = "str"
    /\ change.o["category"].s \in
          {"body_color", "face_expression", "accessory", "pattern", "background", "special"}
    /\ change.o["new_rarity"].s \in {"common", "uncommon", "rare", "legendary"}

\* the positions of the changes that resolve and name category c
Naming(changes, c) ==
    {i \in 1..Len(changes) : Resolves(changes[i]) /\ changes[i].o["category"].s = c}

\* C6: a change that does not resolve is skipped without affecting the
\* changes before or after it, wherever it sits in the list, and the
\* result's mutation_count is the input's plus the number of changes applied.
C6_ChangeIsolation ==
    (ApplyReturned /\ ChangesListed) =>
        LET resolving == SelectSeq(GivenChanges, Resolves)
            onlyResolving == JObj(("changes" :> JArr(resolving)) @@ arg.decision.o)
        IN  /\ ret.value.mutation_count = dna.mutation_count + Len(resolving)
            /\ ret = ApplyEvolution(dna, onlyResolving)
            /\ \A c \in TraitCategory :
                  Naming(GivenChanges, c) = {} => ret.value.traits[c] = dna.traits[c]

\* C6 witness: a change that does not resolve sits between two that do,
\* and both of them were applied
C6_Witness ==
    /\ ApplyReturned
    /\ ChangesListed
    /\ \E i, j, k \in 1..Len(GivenChanges) :
          /\ i < j /\ j < k
          /\ Resolves(GivenChanges[i])
          /\ ~Resolves(GivenChanges[j])
          /\ Resolves(GivenChanges[k])
    /\ ret.value.mutation_count = dna.mutation_count + 2

\* C7: after _apply_evolution every category named by a change that
\* resolved holds a Trait with that category, the new_value of the last such
\* change stored verbatim, and that change's rarity.
C7_LastChangeWins ==
    (ApplyReturned /\ ChangesListed) =>
        \A c \in TraitCategory :
            Naming(GivenChanges, c) # {} =>
                LET last == CHOOSE i \in Naming(GivenChanges, c) :
                                \A j \in Naming(GivenChanges, c) : j <= i
                IN  ret.value.traits[c] =
                        [category |-> c,
                         value |-> GivenChanges[last].o["new_value"].s,
                         rarity |-> GivenChanges[last].o["new_rarity"].s]

\* C7 witness: two resolving changes name one category, the last with a
\* value outside the vocabulary, which is stored
C7_Witness ==
    /\ ApplyReturned
    /\ ChangesListed
    /\ Cardinality(Naming(GivenChanges, "body_color")) >= 2
    /\ ret.value.traits["body_color"].value = "neon"
    /\ dna.traits["body_color"].value # "neon"

(***************************************************************************)
(* The provider and the genetics collaborator.                             *)
(*                                                                         *)
(* A provider is given by how it behaves: whether name() raises, and what  *)
(* generate_response does: it returns a text, returns None, or raises.     *)
(***************************************************************************)
TextReply(text) == [kind |-> "text", text |-> text]
RaisingReply == [kind |-> "raise", text |-> <<>>]
NoneReply == [kind |-> "none", text |-> <<>>]

Provider(nameRaises, reply) == [nameRaises |-> nameRaises, reply |-> reply]

\* the default of generate_response's max_tokens
DefaultMaxTokens == 1024
\* the max_tokens of the story request
StoryMaxTokens == 256
\* evolution_strength=0.1 of the fallback, in tenths
FallbackStrengthTenths == 1

NameCall == [call |-> "name"]
GenerateCall(prompt, max_tokens) ==
    [call |-> "generate_response", prompt |-> prompt, max_tokens |-> max_tokens]

\* GeneticsEngine.evolve(dna, evolution_strength): the records it may
\* return; always a record with the six categories and a mutation count
\* no smaller than the one given
GeneticsEvolve(d, strengthTenths) ==
    {d} \cup
    {LionDNA(d.generation, d.parent_id, [d.traits EXCEPT ![t.category] = t],
             d.mutation_count + 1, d.birth_timestamp) :
        t \in {Trait("body_color", "golden", "uncommon"), Trait("special", "glow", "rare")}}

(***************************************************************************)
(* EvolutionAgent.evolve_with_ai                                           *)
(***************************************************************************)
\* the prompt: the text is fixed but for the traits, the generation and
\* the days it is given
CreateEvolutionPrompt(traits, days, generation) ==
    [kind |-> "evolution", traits |-> traits, days |-> days, generation |-> generation]

\* current_traits: each category's value and rarity
CurrentTraits(d) ==
    [c \in DOMAIN d.traits |-> [value |-> d.traits[c].value, rarity |-> d.traits[c].rarity]]

\* _parse_ai_response on what generate_response returned.  On None the
\* try block fails in None.replace and the handler then fails in
\* response_text[:100], which leaves the function as a TypeError.
ParseReply(reply) ==
    IF reply.kind = "none" THEN Raise("TypeError") ELSE ParseAIResponse(reply.text)

\* a mutant: provider.name() is called inside the try block
EvolveWithAINameGuarded(d, days_passed, provider) ==
    LET prompt == CreateEvolutionPrompt(CurrentTraits(d), days_passed, d.generation)
        asked == <<NameCall, GenerateCall(prompt, DefaultMaxTokens)>>
        parsed == ParseReply(provider.reply)
        ai == IF provider.nameRaises \/ provider.reply.kind = "raise" THEN Raise("ProviderError")
              ELSE IF parsed.kind = "raise" THEN parsed
              ELSE ApplyEvolution(d, parsed.value)
    IN  IF ai.kind = "raise"
        THEN {[ret |-> Return(e),
               providerLog |-> IF provider.nameRaises THEN <<NameCall>> ELSE asked,
               fallbackLog |-> <<[dna |-> d, evolution_strength_tenths |-> FallbackStrengthTenths]>>] :
                 e \in GeneticsEvolve(d, FallbackStrengthTenths)}
        ELSE {[ret |-> ai, providerLog |-> asked, fallbackLog |-> <<>>]}

\* the outcomes of evolve_with_ai(d, days_passed): what it returns or
\* raises, and the calls it made on the provider and on GeneticsEngine
EvolveWithAI(d, days_passed, provider) ==
    LET prompt == CreateEvolutionPrompt(CurrentTraits(d), days_passed, d.generation)
        asked == <<NameCall, GenerateCall(prompt, DefaultMaxTokens)>>
        parsed == ParseReply(provider.reply)
        \* the try block
        ai == IF provider.reply.kind = "raise" THEN Raise("ProviderError")
              ELSE IF parsed.kind = "raise" THEN parsed
              ELSE ApplyEvolution(d, parsed.value)
    IN  IF provider.nameRaises
        THEN \* the print before the try block
             {[ret |-> Raise("ProviderError"), providerLog |-> <<NameCall>>,
               fallbackLog |-> <<>>]}
        ELSE IF ai.kind = "raise"
        THEN {[ret |-> Return(e), providerLog |-> asked,
               fallbackLog |-> <<[dna |-> d, evolution_strength_tenths |-> FallbackStrengthTenths]>>] :
                 e \in GeneticsEvolve(d, FallbackStrengthTenths)}
        ELSE {[ret |-> ai, providerLog |-> asked, fallbackLog |-> <<>>]}

(***************************************************************************)
(* EvolutionAgent.generate_evolution_story                                 *)
(***************************************************************************)
\* what the source holds between the old and the new value: the three
\* characters U+201A U+00DC U+00ED, which are U+2192 read in another encoding
\* (a character outside ASCII is written <U+xxxx>)
Arrow == "<U+201A><U+00DC><U+00ED>"

RestedSentence == "Your lion rested today. No visible changes."

\* the line that reports one changed category
ChangeLine(category, old_trait, new_trait) ==
    category \o ": " \o old_trait.value \o " " \o Arrow \o " " \o new_trait.value

RECURSIVE ChangeLines(_, _, _)
\* changes: the lines of the categories CategoryOrder[i..] whose values differ
ChangeLines(old_dna, new_dna, i) ==
    IF i > Len(CategoryOrder) THEN <<>>
    ELSE LET category == CategoryOrder[i]
             old_trait == old_dna.traits[category]
             new_trait == new_dna.traits[category]
         IN  (IF old_trait.value # new_trait.value
              THEN <<ChangeLine(category, old_trait, new_trait)>>
              ELSE <<>>)
             \o ChangeLines(old_dna, new_dna, i + 1)

RECURSIVE Join(_, _)
\* sep.join(lines)
Join(lines, sep) ==
    IF lines = <<>> THEN ""
    ELSE IF Len(lines) = 1 THEN lines[1]
    ELSE lines[1] \o sep \o Join(Tail(lines), sep)

\* the story prompt: fixed but for the change lines, one per line
StoryPrompt(changes) == [kind |-> "story", changes |-> changes]

\* a mutant: the provider is asked whether or not anything changed
GenerateEvolutionStoryAlwaysAsks(old_dna, new_dna, provider) ==
    LET changes == ChangeLines(old_dna, new_dna, 1)
    IN  [ret |-> IF changes = <<>> THEN Return(RestedSentence)
                 ELSE IF provider.reply.kind = "text"
                 THEN Return(Concat(Strip(provider.reply.text)))
                 ELSE Return("Your lion evolved! Changes: " \o Join(changes, ", ")),
         providerLog |-> <<GenerateCall(StoryPrompt(changes), StoryMaxTokens)>>]

RECURSIVE ChangeLinesByTrait(_, _, _)
\* the lines of the categories CategoryOrder[i..] whose traits differ, in
\* value or in rarity
ChangeLinesByTrait(old_dna, new_dna, i) ==
    IF i > Len(CategoryOrder) THEN <<>>
    ELSE LET category == CategoryOrder[i]
             old_trait == old_dna.traits[category]
             new_trait == new_dna.traits[category]
         IN  (IF old_trait # new_trait
              THEN <<ChangeLine(category, old_trait, new_trait)>>
              ELSE <<>>)
             \o ChangeLinesByTrait(old_dna, new_dna, i + 1)

\* a mutant: the traits are compared whole, rarity included
GenerateEvolutionStoryComparesTraits(old_dna, new_dna, provider) ==
    LET changes == ChangeLinesByTrait(old_dna, new_dna, 1)
    IN  IF changes = <<>> THEN [ret |-> Return(RestedSentence), providerLog |-> <<>>]
        ELSE [ret |-> IF provider.reply.kind = "text"
                      THEN Return(Concat(Strip(provider.reply.text)))
                      ELSE Return("Your lion evolved! Changes: " \o Join(changes, ", ")),
              providerLog |-> <<GenerateCall(StoryPrompt(changes), StoryMaxTokens)>>]

\* a mutant: the except clause is missing
GenerateEvolutionStoryUncaught(old_dna, new_dna, provider) ==
    LET changes == ChangeLines(old_dna, new_dna, 1)
    IN  IF changes = <<>> THEN [ret |-> Return(RestedSentence), providerLog |-> <<>>]
        ELSE [ret |-> IF provider.reply.kind = "text"
                      THEN Return(Concat(Strip(provider.reply.text)))
                      ELSE Raise("ProviderError"),
              providerLog |-> <<GenerateCall(StoryPrompt(changes), StoryMaxTokens)>>]

\* generate_evolution_story(old_dna, new_dna): what it returns and the
\* calls it made on the provider
GenerateEvolutionStory(old_dna, new_dna, provider) ==
    LET changes == ChangeLines(old_dna, new_dna, 1)
    IN  IF changes = <<>> THEN [ret |-> Return(RestedSentence), providerLog |-> <<>>]
        ELSE [ret |-> IF provider.reply.kind = "text"
                      THEN Return(Concat(Strip(provider.reply.text)))
                      \* the call raised, or None.strip() did: the bare except
                      ELSE Return("Your lion evolved! Changes: " \o Join(changes, ", ")),
              providerLog |-> <<GenerateCall(StoryPrompt(changes), StoryMaxTokens)>>]

(***************************************************************************)
(* The agent in use, as in main(): a record is evolved, then the story of  *)
(* the evolution is asked for.                                             *)
(***************************************************************************)
EvolveChangeSrcs == {GoldenChange, StripesChange, UnknownCategoryChange}

EvolvePayloadSrcs ==
    {DecisionSrc(SArr(l), <<"s">>) : l \in SeqsUpTo(EvolveChangeSrcs, MaxChanges)}
    \cup {DecisionSrc(SArr(<<RarityOnlyChange>>), <<"s">>)}
    \cup DeviantSrcs

EvolveTexts ==
    {<<Tick, Tick, Tick, JsonWord, Blank>> \o Serialize(src, <<Blank>>) \o <<Blank, Tick, Tick, Tick>> :
        src \in EvolvePayloadSrcs}
    \cup {<<"not", Blank, "json", Blank, "at", Blank, "all">>, <<LBrace>>, <<RBrace, "x", LBrace>>,
          <<LBrace, "x", RBrace>>, <<"x", RBrace>>}

EvolveReplies == {RaisingReply, NoneReply} \cup {TextReply(t) : t \in EvolveTexts}

StoryReplies == {RaisingReply, NoneReply, TextReply(<<Blank, "A", Blank, "tale.", Blank>>)}

InitAgent ==
    /\ pc = "called"
    /\ op = "evolve"
    /\ dna \in InitialDNAs
    /\ arg \in {[days_passed |-> 1, provider |-> Provider(n, r)] :
                  n \in BOOLEAN, r \in EvolveReplies}
    /\ ret = NoRet
    /\ providerLog = <<>>
    /\ fallbackLog = <<>>
    /\ calls = 1
    /\ rendered = <<>>
    /\ heap = <<>>

\* agent.evolve_with_ai(dna, arg.days_passed)
EvolveWithAICall ==
    /\ pc = "called"
    /\ op = "evolve"
    /\ \E outcome \in EvolveWithAI(dna, arg.days_passed, arg.provider) :
          /\ ret' = outcome.ret
          /\ providerLog' = outcome.providerLog
          /\ fallbackLog' = outcome.fallbackLog
    /\ pc' = "returned"
    /\ UNCHANGED <<op, dna, arg, calls, rendered, heap>>

\* the caller asks for the story of the evolution, or of no evolution
BeginStory ==
    /\ pc = "returned"
    /\ op = "evolve"
    /\ ret.kind = "return"
    /\ op' = "story"
    /\ arg' \in {[new_dna |-> n, provider |-> Provider(FALSE, r)] :
                   n \in {ret.value, dna}, r \in StoryReplies}
    /\ ret' = NoRet
    /\ providerLog' = <<>>
    /\ fallbackLog' = <<>>
    /\ pc' = "called"
    /\ UNCHANGED <<dna, calls, rendered, heap>>

\* agent.generate_evolution_story(dna, arg.new_dna)
GenerateEvolutionStoryCall ==
    /\ pc = "called"
    /\ op = "story"
    /\ LET outcome == GenerateEvolutionStory(dna, arg.new_dna, arg.provider)
       IN  /\ ret' = outcome.ret
           /\ providerLog' = outcome.providerLog
    /\ pc' = "returned"
    /\ UNCHANGED <<op, dna, arg, fallbackLog, calls, rendered, heap>>

NextAgent == EvolveWithAICall \/ BeginStory \/ GenerateEvolutionStoryCall

SpecAgent == InitAgent /\ [][NextAgent]_vars

(***************************************************************************)
(* Claims about evolve_with_ai and generate_evolution_story, under         *)
(* SpecAgent.                                                              *)
(***************************************************************************)
EvolveReturned == pc = "returned" /\ op = "evolve"
StoryReturned == pc = "returned" /\ op = "story"

\* the fallback was the one call GeneticsEngine.evolve(dna, 0.1) on the
\* record the call was given, and its result was returned
FellBack ==
    /\ ret.kind = "return"
    /\ fallbackLog = <<[dna |-> dna, evolution_strength_tenths |-> 1]>>
    /\ ret.value \in GeneticsEvolve(dna, 1)

\* C2: with a provider whose operations always raise, evolve_with_ai(dna, 1)
\* propagates no error and returns the result of the random-evolution
\* collaborator invoked on the unmodified input with the strength 0.1.
C2_RaisingProviderFallsBack ==
    (EvolveReturned /\ arg.days_passed = 1
        /\ arg.provider.nameRaises /\ arg.provider.reply.kind = "raise") =>
        FellBack

\* C2, where it holds: a provider whose generate_response raises and whose
\* name() returns
C2_RaisingGenerateFallsBack ==
    (EvolveReturned /\ ~arg.provider.nameRaises /\ arg.provider.reply.kind = "raise") =>
        FellBack

\* the provider call succeeded and returned text from which no change-set
\* can be parsed
MalformedReply ==
    /\ ~arg.provider.nameRaises
    /\ arg.provider.reply.kind = "text"
    /\ NothingToParse(arg.provider.reply.text)

\* C3 as claimed: when the provider call succeeds but returns malformed
\* output, evolve_with_ai returns the result of the random-evolution fallback.
C3_MalformedOutputFallsBack ==
    (EvolveReturned /\ MalformedReply) => fallbackLog # <<>>

\* C3, what the code does instead: when the provider call succeeds but returns
\* text from which no JSON object can be parsed, evolve_with_ai does not invoke
\* the fallback;
\* it returns the Applier's output for the empty change-set, a record with
\* the input's generation, parent, birth timestamp, traits and mutation count.
C3_MalformedOutputKeepsRecord ==
    (EvolveReturned /\ MalformedReply) =>
        /\ fallbackLog = <<>>
        /\ ret.kind = "return"
        /\ ret.value.traits = dna.traits
        /\ ret.value.mutation_count = dna.mutation_count
        /\ ret.value.generation = dna.generation
        /\ ret.value.parent_id = dna.parent_id
        /\ ret.value.birth_timestamp = dna.birth_timestamp

\* C3 witness: a reply with a closing and no opening brace was evolved on
C3_Witness ==
    /\ EvolveReturned
    /\ MalformedReply
    /\ NoOpeningBrace(arg.provider.reply.text)
    /\ ~NoClosingBrace(arg.provider.reply.text)
    /\ ret.kind = "return"

\* the categories whose value differs between the two records of a story call
Differing == {c \in TraitCategory : dna.traits[c].value # arg.new_dna.traits[c].value}

\* C9: when no category differs between old and new DNA, the operation
\* returns the fixed sentence and makes no provider call.
C9_NoChangeNoProviderCall ==
    (StoryReturned /\ Differing = {}) =>
        /\ ret = [kind |-> "return", value |-> "Your lion rested today. No visible changes."]
        /\ providerLog = <<>>

\* C9 witness: the story of a record against itself
C9_Witness ==
    /\ StoryReturned
    /\ arg.new_dna = dna
    /\ ret.kind = "return"

\* the templated sentence: the differing categories in the fixed order
\* the arrow U+2192
RightArrow == "<U+2192>"

RECURSIVE Listing(_, _)
\* the lines "category: old <arrow> new" of the differing categories among
\* the first i, in the fixed category order
Listing(i, arrow) ==
    IF i = 0 THEN <<>>
    ELSE Listing(i - 1, arrow)
         \o (IF CategoryOrder[i] \in Differing
             THEN <<CategoryOrder[i] \o ": " \o dna.traits[CategoryOrder[i]].value
                    \o " " \o arrow \o " " \o arg.new_dna.traits[CategoryOrder[i]].value>>
             ELSE <<>>)

RECURSIVE CommaSeparated(_)
CommaSeparated(lines) ==
    IF lines = <<>> THEN ""
    ELSE IF Len(lines) = 1 THEN lines[1]
    ELSE CommaSeparated(SubSeq(lines, 1, Len(lines) - 1)) \o ", " \o lines[Len(lines)]

\* C10: when at least one category's value differs, generate_evolution_story
\* calls the provider exactly once, and if that call fails it raises nothing
\* and returns the templated sentence listing every differing category as
\* "category: old U+2192 new" in the fixed category order.
C10_StoryFallsBackToTemplate ==
    (StoryReturned /\ Differing # {}) =>
        /\ Len(providerLog) = 1
        /\ providerLog[1].call = "generate_response"
        /\ ret.kind = "return"
        /\ arg.provider.reply.kind # "text" =>
              ret.value = "Your lion evolved! Changes: "
                            \o CommaSeparated(Listing(Len(CategoryOrder), RightArrow))

\* what holds of the fallback: one provider call, nothing raised, and the
\* templated sentence in the fixed category order, with the characters of
\* the source where the arrow is meant
StoryFallsBackToSourceTemplate ==
    (StoryReturned /\ Differing # {}) =>
        /\ Len(providerLog) = 1
        /\ providerLog[1].call = "generate_response"
        /\ ret.kind = "return"
        /\ arg.provider.reply.kind # "text" =>
              ret.value = "Your lion evolved! Changes: "
                            \o CommaSeparated(Listing(Len(CategoryOrder), Arrow))

\* the story was asked for two differing categories and the provider call
\* raised
StoryFellBack ==
    /\ StoryReturned
    /\ Cardinality(Differing) >= 2
    /\ arg.provider.reply.kind = "raise"
    /\ ret.kind = "return"

(***************************************************************************)
(* LionVisualizer.  A document is the sequence of its lines, the text      *)
(* that "\n".join gives being the lines' texts with a newline between.     *)
(* Every line the program emits has one of five forms.                     *)
(***************************************************************************)
\* an attribute, printed as name="value"
Attr(name, value) == <<name, value>>

\* <el name="value" .../>
Void(el, attrs) == [form |-> "void", el |-> el, attrs |-> attrs, inner |-> ""]

\* <el name="value" ...>
Open(el, attrs) == [form |-> "open", el |-> el, attrs |-> attrs, inner |-> ""]

\* </el>
Close(el) == [form |-> "close", el |-> el, attrs |-> <<>>, inner |-> ""]

\* <el name="value" ...>inner</el>
Full(el, attrs, inner) == [form |-> "full", el |-> el, attrs |-> attrs, inner |-> inner]

\* the empty string, which a layer with nothing to draw returns
BlankLine == [form |-> "blank", el |-> "", attrs |-> <<>>, inner |-> ""]

RECURSIVE AttrsText(_)
AttrsText(attrs) ==
    IF attrs = <<>> THEN ""
    ELSE " " \o Head(attrs)[1] \o "=\"" \o Head(attrs)[2] \o "\"" \o AttrsText(Tail(attrs))

\* the text of a line
Text(line) ==
    CASE line.form = "void" -> "<" \o line.el \o AttrsText(line.attrs) \o "/>"
      [] line.form = "open" -> "<" \o line.el \o AttrsText(line.attrs) \o ">"
      [] line.form = "close" -> "</" \o line.el \o ">"
      [] line.form = "full" ->
            "<" \o line.el \o AttrsText(line.attrs) \o ">" \o line.inner
                \o "</" \o line.el \o ">"
      [] OTHER -> ""

RECURSIVE TextOfAll(_)
\* the texts of lines, one after the other with nothing between
TextOfAll(lines) ==
    IF lines = <<>> THEN "" ELSE Text(Head(lines)) \o TextOfAll(Tail(lines))

\* "\n".join(p) as lines: the join of no lines is the empty string, which
\* is one empty line of the text it is joined into
JoinLines(p) == IF p = <<>> THEN <<BlankLine>> ELSE p

RECURSIVE Flatten(_)
Flatten(seqs) == IF seqs = <<>> THEN <<>> ELSE Head(seqs) \o Flatten(Tail(seqs))

\* for i in range(n): the lines Body(i) appends, for i = 0 .. n-1
ForRange(n, Body(_)) == Flatten([k \in 1..n |-> Body(k - 1)])

\* for x in xs: the lines Body(x) appends
ForEach(xs, Body(_)) == Flatten([k \in 1..Len(xs) |-> Body(xs[k])])

\* list(range(start, stop, step)) for step > 0
Range(start, stop, step) ==
    IF stop <= start THEN <<>>
    ELSE [k \in 1..((stop - start + step - 1) \div step) |-> start + (k - 1) * step]

\* an int in an f-string
N(i) == ToString(i)

\* a float with one decimal in an f-string, from its value in tenths
Tenths(t) ==
    LET a == IF t < 0 THEN -t ELSE t
    IN  (IF t < 0 THEN "-" ELSE "") \o ToString(a \div 10) \o "." \o ToString(a % 10)

\* a % b of the program, for b # 0: the sign of the result is that of b
PyMod(a, b) == IF b > 0 THEN a % b ELSE -((-a) % (-b))

\* BODY_COLORS: the palette of each body colour
BODY_COLORS ==
    [brown |-> [main |-> "#CD853F", shadow |-> "#8B4513", highlight |-> "#DEB887", mane |-> "#8B4513", mane2 |-> "#6B3410"],
      tan |-> [main |-> "#D2B48C", shadow |-> "#B8956E", highlight |-> "#F4E4C1", mane |-> "#A0784C", mane2 |-> "#7A5A3A"],
      beige |-> [main |-> "#F5F5DC", shadow |-> "#D4D4B8", highlight |-> "#FFFFF0", mane |-> "#C8B88A", mane2 |-> "#A09068"],
      golden |-> [main |-> "#DAA520", shadow |-> "#B8860B", highlight |-> "#FFD700", mane |-> "#B8860B", mane2 |-> "#8B6508"],
      white |-> [main |-> "#F8F8F8", shadow |-> "#D8D8D8", highlight |-> "#FFFFFF", mane |-> "#E0D8D0", mane2 |-> "#C8C0B8"],
      black |-> [main |-> "#3A3A3A", shadow |-> "#1A1A1A", highlight |-> "#5A5A5A", mane |-> "#1A1A1A", mane2 |-> "#0A0A0A"],
      gray |-> [main |-> "#A0A0A0", shadow |-> "#707070", highlight |-> "#C8C8C8", mane |-> "#606060", mane2 |-> "#404040"],
      silver |-> [main |-> "#C0C0C0", shadow |-> "#909090", highlight |-> "#E8E8E8", mane |-> "#808080", mane2 |-> "#606060"],
      copper |-> [main |-> "#B87333", shadow |-> "#8B5A2B", highlight |-> "#DA8A4A", mane |-> "#7A4A1A", mane2 |-> "#5A3A10"],
      bronze |-> [main |-> "#CD7F32", shadow |-> "#A0622A", highlight |-> "#E0A050", mane |-> "#7A4A1A", mane2 |-> "#5A3210"],
      blue |-> [main |-> "#4A90D9", shadow |-> "#2A6AB0", highlight |-> "#7AB8FF", mane |-> "#2A5A90", mane2 |-> "#1A3A60"],
      purple |-> [main |-> "#9B59B6", shadow |-> "#6C3483", highlight |-> "#C39BD3", mane |-> "#5B2C6F", mane2 |-> "#3B1C4F"],
      green |-> [main |-> "#5DAE8B", shadow |-> "#3D8E6B", highlight |-> "#8DD8B0", mane |-> "#2D6E4B", mane2 |-> "#1D4E3B"],
      pink |-> [main |-> "#E8829A", shadow |-> "#C8627A", highlight |-> "#FFB0C8", mane |-> "#A84060", mane2 |-> "#882848"],
      rainbow |-> [main |-> "#FFB347", shadow |-> "#FF6B6B", highlight |-> "#FFFF88", mane |-> "#9B59B6", mane2 |-> "#4A90D9"],
      galaxy |-> [main |-> "#2C1654", shadow |-> "#1A0A30", highlight |-> "#6C3FA0", mane |-> "#0D0D2B", mane2 |-> "#1A0530"],
      holographic |-> [main |-> "#E0E8F0", shadow |-> "#A0D0E0", highlight |-> "#F0F8FF", mane |-> "#C0A8D8", mane2 |-> "#90D8C0"],
      crystal |-> [main |-> "#D4F1F9", shadow |-> "#88CCE8", highlight |-> "#EAFBFF", mane |-> "#70B8D8", mane2 |-> "#5098B8"]]

\* dict.get(key, default) on a table with string keys
Get(table, key, default) == IF key \in DOMAIN table THEN table[key] ELSE default

(***************************************************************************)
(* LionVisualizer._defs                                                    *)
(***************************************************************************)
\* <stop offset=".." stop-color=".."/>
Stop(offset, color) == Text(Void("stop", <<Attr("offset", offset), Attr("stop-color", color)>>))

\* a linearGradient from the top left corner to (x2, 100%)
LinearGradient(id, x2, stops) ==
    Full("linearGradient",
         <<Attr("id", id), Attr("x1", "0%"), Attr("y1", "0%"), Attr("x2", x2), Attr("y2", "100%")>>,
         stops)

\* a mutant: both blur filters are given the id of the strong one
GlowFilterStrongOnly(id, deviation, blurs) ==
    LET node(in) == Void("feMergeNode", <<Attr("in", in)>>)
    IN  Full("filter", <<Attr("id", "glow-strong")>>,
             Text(Void("feGaussianBlur",
                       <<Attr("in", "SourceGraphic"), Attr("stdDeviation", deviation),
                         Attr("result", "blur")>>))
             \o Text(Full("feMerge", <<>>,
                          TextOfAll([k \in 1..blurs |-> node("blur")])
                          \o Text(node("SourceGraphic")))))

\* a blur filter whose result is merged blurs times under the graphic
GlowFilter(id, deviation, blurs) ==
    LET node(in) == Void("feMergeNode", <<Attr("in", in)>>)
    IN  Full("filter", <<Attr("id", id)>>,
             Text(Void("feGaussianBlur",
                       <<Attr("in", "SourceGraphic"), Attr("stdDeviation", deviation),
                         Attr("result", "blur")>>))
             \o Text(Full("feMerge", <<>>,
                          TextOfAll([k \in 1..blurs |-> node("blur")])
                          \o Text(node("SourceGraphic")))))

\* the gradients the backgrounds are filled with
BackgroundGradients ==
    <<LinearGradient("bg-sky", "0%",
                      Stop("0%", "#87CEEB") \o Stop("100%", "#E0F4FF")),
       LinearGradient("bg-sunset", "0%",
                      Stop("0%", "#FF4500") \o Stop("40%", "#FF8C00") \o Stop("100%", "#FFD700")),
       LinearGradient("bg-forest", "0%",
                      Stop("0%", "#2D5016") \o Stop("100%", "#4A7A2E")),
       LinearGradient("bg-grass", "0%",
                      Stop("0%", "#87CEEB") \o Stop("60%", "#87CEEB") \o Stop("60%", "#7CCD7C") \o Stop("100%", "#4A8B3F")),
       LinearGradient("bg-beach", "0%",
                      Stop("0%", "#87CEEB") \o Stop("50%", "#87CEEB") \o Stop("50%", "#F4D03F") \o Stop("100%", "#E8C430")),
       LinearGradient("bg-space", "0%",
                      Stop("0%", "#0B0B2B") \o Stop("100%", "#1A1A4A")),
       LinearGradient("bg-underwater", "0%",
                      Stop("0%", "#006994") \o Stop("100%", "#003050")),
       LinearGradient("bg-volcano", "0%",
                      Stop("0%", "#1A0A00") \o Stop("60%", "#4A1A00") \o Stop("100%", "#FF4500")),
       LinearGradient("bg-aurora-bg", "100%",
                      Stop("0%", "#0B1A30") \o Stop("33%", "#1A4A3A") \o Stop("66%", "#2A1A5A") \o Stop("100%", "#0B1A30")),
       LinearGradient("bg-multiverse", "100%",
                      Stop("0%", "#FF006E") \o Stop("25%", "#8338EC") \o Stop("50%", "#3A86FF") \o Stop("75%", "#06D6A0") \o Stop("100%", "#FFD166")),
       Full("radialGradient",
            <<Attr("id", "bg-black-hole"), Attr("cx", "50%"), Attr("cy", "50%"), Attr("r", "50%")>>,
            Stop("0%", "#000000") \o Stop("60%", "#1A0530") \o Stop("100%", "#4A1A70")),
       LinearGradient("bg-dimension", "100%",
                      Stop("0%", "#FF0080") \o Stop("50%", "#0000FF") \o Stop("100%", "#00FF80")),
       LinearGradient("bg-heaven", "0%",
                      Stop("0%", "#FFFDE0") \o Stop("100%", "#FFF8E1")),
       LinearGradient("bg-mountains", "0%",
                      Stop("0%", "#87CEEB") \o Stop("100%", "#B0C4DE")),
       LinearGradient("bg-city", "0%",
                      Stop("0%", "#1A1A2E") \o Stop("100%", "#16213E"))>>

\* _defs(t, colors, w, h)
Defs(t, colors, w, h) ==
    <<Open("defs", <<>>),
      Full("filter",
           <<Attr("id", "shadow"), Attr("x", "-20%"), Attr("y", "-20%"),
             Attr("width", "140%"), Attr("height", "140%")>>,
           Text(Void("feDropShadow",
                     <<Attr("dx", "2"), Attr("dy", "4"), Attr("stdDeviation", "3"),
                       Attr("flood-opacity", "0.3")>>))),
      GlowFilter("glow", "8", 1),
      GlowFilter("glow-strong", "15", 2)>>
    \o BackgroundGradients
    \o <<Full("clipPath", <<Attr("id", "body-clip")>>,
              Text(Void("circle",
                        <<Attr("cx", N(w \div 2)), Attr("cy", N(h \div 2)), Attr("r", "88")>>)))>>
    \o (IF t.body_color = "rainbow"
        THEN <<LinearGradient("rainbow-mane", "100%",
                       Stop("0%", "#FF6B6B") \o
                       Stop("20%", "#FFB347") \o
                       Stop("40%", "#FFFF88") \o
                       Stop("60%", "#88FF88") \o
                       Stop("80%", "#88BBFF") \o
                       Stop("100%", "#BB88FF"))>>
        ELSE <<>>)
    \o <<Close("defs")>>

(***************************************************************************)
(* LionVisualizer._background                                              *)
(***************************************************************************)
\* x,y and x y in a points or a path attribute
Pt(x, y) == N(x) \o "," \o N(y)
XY(x, y) == N(x) \o " " \o N(y)

\* simple_fills
SimpleFills ==
    [white |-> "#FFF5E6", blue_sky |-> "url(#bg-sky)", green_grass |-> "url(#bg-grass)",
     sunset |-> "url(#bg-sunset)", forest |-> "url(#bg-forest)", beach |-> "url(#bg-beach)",
     space |-> "url(#bg-space)", underwater |-> "url(#bg-underwater)",
     volcano |-> "url(#bg-volcano)", aurora |-> "url(#bg-aurora-bg)",
     multiverse |-> "url(#bg-multiverse)", black_hole |-> "url(#bg-black-hole)",
     dimension_rift |-> "url(#bg-dimension)", heaven |-> "url(#bg-heaven)",
     mountains |-> "url(#bg-mountains)", city |-> "url(#bg-city)"]

\* 0.4 + (i % 5) * 0.12 in an f-string, for i % 5 = 0 .. 4
StarOpacity == <<"0.4", "0.52", "0.64", "0.76", "0.88">>

\* int(200 * sin(radians(angle))) and int(200 * cos(radians(angle))) for
\* angle = i * 30 - 75, i = 0 .. 5
RaySin == <<-193, -141, -51, 51, 141, 193>>
RayCos == <<51, 141, 193, 193, 141, 51>>

\* the building silhouettes of the city: (bx, bh)
Buildings ==
    <<<<20, 140>>, <<60, 180>>, <<100, 120>>, <<140, 200>>, <<180, 150>>,
      <<220, 190>>, <<260, 130>>, <<300, 170>>, <<340, 160>>, <<370, 140>>>>

\* the clouds of blue_sky, for w # 120
SkyClouds(w, seed) ==
    ForRange(3, LAMBDA i :
        LET cx == 60 + PyMod(seed + i * 137, w - 120)
            cy == 30 + ((seed + i * 53) % 80)
        IN  <<Void("ellipse", <<Attr("cx", N(cx)), Attr("cy", N(cy)), Attr("rx", "40"),
                                Attr("ry", "18"), Attr("fill", "white"),
                                Attr("opacity", "0.7")>>),
              Void("ellipse", <<Attr("cx", N(cx + 25)), Attr("cy", N(cy - 5)),
                                Attr("rx", "30"), Attr("ry", "15"), Attr("fill", "white"),
                                Attr("opacity", "0.6")>>)>>)

\* the sun and the grass blades of green_grass and savanna, for w # 40
GrassScene(w, h, seed) ==
    <<Void("circle", <<Attr("cx", N(w - 60)), Attr("cy", "50"), Attr("r", "30"),
                       Attr("fill", "#FFD700"), Attr("opacity", "0.8")>>)>>
    \o ForRange(8, LAMBDA i :
        LET x == 20 + PyMod(seed + i * 47, w - 40)
        IN  <<Void("line", <<Attr("x1", N(x)), Attr("y1", N(h)), Attr("x2", N(x - 5)),
                             Attr("y2", N(h - 20)), Attr("stroke", "#5A8A3A"),
                             Attr("stroke-width", "2")>>)>>)

\* the trees of forest, for w # 60
ForestTrees(w, h, seed) ==
    ForRange(5, LAMBDA i :
        LET tx == 30 + PyMod(seed + i * 71, w - 60)
            th == 60 + ((seed + i * 31) % 40)
        IN  <<Void("polygon", <<Attr("points", Pt(tx, h - th) \o " " \o Pt(tx - 15, h - 10)
                                    \o " " \o Pt(tx + 15, h - 10)),
                                Attr("fill", "#1A4010"), Attr("opacity", "0.5")>>),
              Void("rect", <<Attr("x", N(tx - 3)), Attr("y", N(h - 15)), Attr("width", "6"),
                             Attr("height", "15"), Attr("fill", "#5A3A1A"),
                             Attr("opacity", "0.5")>>)>>)

\* the peaks and the snow caps of mountains
MountainPeaks(h) ==
    <<Void("polygon", <<Attr("points", "0," \o N(h) \o " 80," \o N(h - 180) \o " 160," \o N(h)),
                        Attr("fill", "#6C7A89"), Attr("opacity", "0.6")>>),
      Void("polygon", <<Attr("points", "100," \o N(h) \o " 200," \o N(h - 220) \o " 300,"
                            \o N(h)),
                        Attr("fill", "#7F8C8D"), Attr("opacity", "0.5")>>),
      Void("polygon", <<Attr("points", "250," \o N(h) \o " 340," \o N(h - 160) \o " 400,"
                            \o N(h)),
                        Attr("fill", "#6C7A89"), Attr("opacity", "0.6")>>),
      Void("polygon", <<Attr("points", "65," \o N(h - 165) \o " 80," \o N(h - 180) \o " 95,"
                            \o N(h - 165)),
                        Attr("fill", "white"), Attr("opacity", "0.8")>>),
      Void("polygon", <<Attr("points", "180," \o N(h - 200) \o " 200," \o N(h - 220)
                            \o " 220," \o N(h - 200)),
                        Attr("fill", "white"), Attr("opacity", "0.8")>>)>>

\* the buildings of city, each followed by its windows row by row
CityBuildings(h, seed) ==
    ForEach(Buildings, LAMBDA b :
        LET bx == b[1]
            bh == b[2]
            bw == 30 + ((seed + bx) % 15)
        IN  <<Void("rect", <<Attr("x", N(bx)), Attr("y", N(h - bh)), Attr("width", N(bw)),
                             Attr("height", N(bh)), Attr("fill", "#0F3460"),
                             Attr("opacity", "0.7")>>)>>
            \o ForEach(Range(h - bh + 10, h - 10, 20), LAMBDA wy :
                  ForEach(Range(bx + 5, bx + bw - 5, 10), LAMBDA wx :
                      LET lit == ((seed + wx + wy) % 3) # 0
                          litfill == IF lit THEN "#FFD700" ELSE "#1A1A2E"
                      IN  <<Void("rect", <<Attr("x", N(wx)), Attr("y", N(wy)),
                                           Attr("width", "5"), Attr("height", "8"),
                                           Attr("fill", litfill), Attr("opacity", "0.8")>>)>>)))

\* the stars and the nebula glow of space
SpaceScene(w, h, seed) ==
    ForRange(30, LAMBDA i :
        LET sx == (seed * (i + 1) * 7) % w
            sy == (seed * (i + 1) * 13) % h
            sr == 1 + (i % 3)
        IN  <<Void("circle", <<Attr("cx", N(sx)), Attr("cy", N(sy)), Attr("r", N(sr)),
                               Attr("fill", "white"),
                               Attr("opacity", StarOpacity[(i % 5) + 1])>>)>>)
    \o <<Void("circle", <<Attr("cx", N(w \div 3)), Attr("cy", N(h \div 3)), Attr("r", "80"),
                          Attr("fill", "#9B59B6"), Attr("opacity", "0.08")>>),
         Void("circle", <<Attr("cx", N((w * 2) \div 3)), Attr("cy", N((h * 2) \div 3)),
                          Attr("r", "60"), Attr("fill", "#3498DB"), Attr("opacity", "0.08")>>)>>

\* the bubbles and the seaweed of underwater, for w # 80
UnderwaterScene(w, h, seed) ==
    ForRange(12, LAMBDA i :
        LET bx == (seed * (i + 1) * 11) % w
            by == (seed * (i + 1) * 17) % h
            br == 3 + (i % 6)
        IN  <<Void("circle", <<Attr("cx", N(bx)), Attr("cy", N(by)), Attr("r", N(br)),
                               Attr("fill", "none"), Attr("stroke", "#80D0E0"),
                               Attr("stroke-width", "1"), Attr("opacity", "0.4")>>)>>)
    \o ForRange(4, LAMBDA i :
        LET sx == 40 + PyMod(seed + i * 97, w - 80)
        IN  <<Void("path", <<Attr("d", "M" \o XY(sx, h) \o " Q" \o XY(sx + 10, h - 40)
                                 \o " " \o XY(sx - 5, h - 70) \o " Q"
                                 \o XY(sx + 15, h - 100) \o " " \o XY(sx, h - 120)),
                             Attr("stroke", "#2E8B57"), Attr("stroke-width", "4"),
                             Attr("fill", "none"), Attr("opacity", "0.5")>>)>>)

\* the lava glow and the embers of volcano
VolcanoScene(w, h, seed) ==
    <<Void("circle", <<Attr("cx", N(w \div 2)), Attr("cy", N(h)), Attr("r", "120"),
                       Attr("fill", "#FF4500"), Attr("opacity", "0.15")>>)>>
    \o ForRange(8, LAMBDA i :
        LET ex == (seed * (i + 1) * 23) % w
            ey == (seed * (i + 1) * 37) % h
        IN  <<Void("circle", <<Attr("cx", N(ex)), Attr("cy", N(ey)), Attr("r", "2"),
                               Attr("fill", "#FF6347"), Attr("opacity", "0.6")>>)>>)

\* the bands and the stars of aurora, for h \div 2 # 0
AuroraScene(w, h, seed) ==
    ForRange(3, LAMBDA i :
        LET y == 40 + i * 50
            color == <<"#00FF88", "#8800FF", "#00AAFF">>[i + 1]
        IN  <<Void("path", <<Attr("d", "M0 " \o N(y) \o " Q100 " \o N(y - 30) \o " 200 "
                                 \o N(y + 10) \o " T400 " \o N(y)),
                             Attr("stroke", color), Attr("stroke-width", "20"),
                             Attr("fill", "none"), Attr("opacity", "0.15")>>)>>)
    \o ForRange(15, LAMBDA i :
        LET sx == (seed * (i + 1) * 7) % w
            sy == (seed * (i + 1) * 13) % (h \div 2)
        IN  <<Void("circle", <<Attr("cx", N(sx)), Attr("cy", N(sy)), Attr("r", "1.5"),
                               Attr("fill", "white"), Attr("opacity", "0.6")>>)>>)

\* the clouds and the rays of heaven
HeavenScene(w, h, seed) ==
    ForRange(5, LAMBDA i :
        LET cx == (seed * (i + 1) * 41) % w
            cy == (seed * (i + 1) * 29) % h
        IN  <<Void("ellipse", <<Attr("cx", N(cx)), Attr("cy", N(cy)), Attr("rx", "50"),
                                Attr("ry", "20"), Attr("fill", "white"),
                                Attr("opacity", "0.3")>>)>>)
    \o ForRange(6, LAMBDA i :
        <<Void("line", <<Attr("x1", N(w \div 2)), Attr("y1", "0"),
                         Attr("x2", N(w \div 2 + RaySin[i + 1])),
                         Attr("y2", N(RayCos[i + 1])), Attr("stroke", "#FFD700"),
                         Attr("stroke-width", "3"), Attr("opacity", "0.1")>>)>>)

\* the portals of multiverse, for w # 100 and h # 100
MultiversePortals(w, h, seed) ==
    ForRange(3, LAMBDA i :
        LET px == 50 + PyMod(seed * (i + 1) * 43, w - 100)
            py == 50 + PyMod(seed * (i + 1) * 67, h - 100)
        IN  <<Void("circle", <<Attr("cx", N(px)), Attr("cy", N(py)), Attr("r", "25"),
                               Attr("fill", "none"), Attr("stroke", "white"),
                               Attr("stroke-width", "2"), Attr("opacity", "0.2")>>)>>)

\* _background(bg, w, h, seed): the lines it returns, or the error it
\* raises where a modulus is taken by zero
Background(bg, w, h, seed) ==
    LET fill == Get(SimpleFills, bg, "#FFF5E6")
        p == <<Void("rect", <<Attr("width", N(w)), Attr("height", N(h)), Attr("fill", fill)>>)>>
    IN  CASE bg = "blue_sky" ->
                IF w - 120 = 0 THEN Raise("ZeroDivisionError")
                ELSE Return(p \o SkyClouds(w, seed))
          [] bg = "sunset" ->
                Return(p \o <<Void("circle", <<Attr("cx", N(w \div 2)),
                                               Attr("cy", N(h \div 2 + 40)), Attr("r", "60"),
                                               Attr("fill", "#FFD700"),
                                               Attr("opacity", "0.5")>>)>>)
          [] bg = "green_grass" \/ bg = "savanna" ->
                IF w - 40 = 0 THEN Raise("ZeroDivisionError")
                ELSE Return(p \o GrassScene(w, h, seed))
          [] bg = "forest" ->
                IF w - 60 = 0 THEN Raise("ZeroDivisionError")
                ELSE Return(p \o ForestTrees(w, h, seed))
          [] bg = "beach" ->
                Return(p \o <<Void("path", <<Attr("d", "M0 " \o N(h \div 2 - 10) \o " Q"
                                                 \o XY(w \div 4, h \div 2 - 25) \o " "
                                                 \o XY(w \div 2, h \div 2 - 10) \o " T"
                                                 \o XY(w, h \div 2 - 10)),
                                             Attr("stroke", "#5DADE2"),
                                             Attr("stroke-width", "2"), Attr("fill", "none"),
                                             Attr("opacity", "0.5")>>)>>)
          [] bg = "mountains" -> Return(p \o MountainPeaks(h))
          [] bg = "city" -> Return(p \o CityBuildings(h, seed))
          [] bg = "space" -> Return(p \o SpaceScene(w, h, seed))
          [] bg = "underwater" ->
                IF w - 80 = 0 THEN Raise("ZeroDivisionError")
                ELSE Return(p \o UnderwaterScene(w, h, seed))
          [] bg = "volcano" -> Return(p \o VolcanoScene(w, h, seed))
          [] bg = "aurora" ->
                IF h \div 2 = 0 THEN Raise("ZeroDivisionError")
                ELSE Return(p \o AuroraScene(w, h, seed))
          [] bg = "heaven" -> Return(p \o HeavenScene(w, h, seed))
          [] bg = "black_hole" ->
                Return(p \o <<Void("ellipse", <<Attr("cx", N(w \div 2)),
                                                Attr("cy", N(h \div 2)), Attr("rx", "180"),
                                                Attr("ry", "40"), Attr("fill", "none"),
                                                Attr("stroke", "#9B59B6"),
                                                Attr("stroke-width", "3"),
                                                Attr("opacity", "0.3"),
                                                Attr("transform", "rotate(-20 "
                                                    \o XY(w \div 2, h \div 2) \o ")")>>),
                              Void("ellipse", <<Attr("cx", N(w \div 2)),
                                                Attr("cy", N(h \div 2)), Attr("rx", "150"),
                                                Attr("ry", "30"), Attr("fill", "none"),
                                                Attr("stroke", "#FF6B6B"),
                                                Attr("stroke-width", "2"),
                                                Attr("opacity", "0.2"),
                                                Attr("transform", "rotate(-20 "
                                                    \o XY(w \div 2, h \div 2) \o ")")>>)>>)
          [] bg = "multiverse" ->
                IF w - 100 = 0 \/ h - 100 = 0 THEN Raise("ZeroDivisionError")
                ELSE Return(p \o MultiversePortals(w, h, seed))
          [] bg = "dimension_rift" ->
                Return(p \o <<Void("path", <<Attr("d", "M" \o N(w \div 2) \o " 0 L"
                                                 \o XY(w \div 2 + 20, h \div 3) \o " L"
                                                 \o XY(w \div 2 - 10, (h * 2) \div 3)
                                                 \o " L" \o XY(w \div 2 + 5, h)),
                                             Attr("stroke", "white"),
                                             Attr("stroke-width", "3"), Attr("fill", "none"),
                                             Attr("opacity", "0.3")>>)>>)
          [] OTHER -> Return(p)

(***************************************************************************)
(* LionVisualizer._star_shape and _heart_shape                             *)
(***************************************************************************)
\* cos and sin of i * 36 - 90 degrees, i = 0 .. 9, in ten-thousandths
StarCos == <<0, 5878, 9511, 9511, 5878, 0, -5878, -9511, -9511, -5878>>
StarSin == <<-10000, -8090, -3090, 3090, 8090, 10000, 8090, 3090, -3090, -8090>>

\* f"{c + r * x:.1f}" for an int c, r given in tenths and x in
\* ten-thousandths: the sum rounded to one decimal, with the sign of the sum
OneDecimal(c, r, x) ==
    LET sum == c * 100000 + r * x
        a == IF sum < 0 THEN -sum ELSE sum
        tenths == (a + 5000) \div 10000
    IN  (IF sum < 0 THEN "-" ELSE "") \o ToString(tenths \div 10) \o "." \o ToString(tenths % 10)

\* _star_shape(cx, cy, outer, inner, color), the radii in tenths
StarShape(cx, cy, outer, inner, color) ==
    LET pts == [k \in 1..10 |->
                  LET r == IF (k - 1) % 2 = 0 THEN outer ELSE inner
                  IN  OneDecimal(cx, r, StarCos[k]) \o "," \o OneDecimal(cy, r, StarSin[k])]
    IN  Void("polygon", <<Attr("points", Join(pts, " ")), Attr("fill", color)>>)

\* the float c + t / 10 in an f-string, t in tenths, for the offsets the
\* heart takes: the few sums that are not the nearest float to a decimal
\* with one digit are listed
FloatSum(c, t) ==
    CASE t = 48 /\ c = -6 -> "-1.2000000000000002"
      [] t = 48 /\ c = -5 -> "-0.20000000000000018"
      [] t = 48 /\ c = -4 -> "0.7999999999999998"
      [] t = 48 /\ c = -3 -> "1.7999999999999998"
      [] t = -16 /\ c = 1 -> "-0.6000000000000001"
      [] t = -16 /\ c = 2 -> "0.3999999999999999"
      [] t = -48 /\ c = 3 -> "-1.7999999999999998"
      [] t = -48 /\ c = 4 -> "-0.7999999999999998"
      [] t = -48 /\ c = 5 -> "0.20000000000000018"
      [] t = -48 /\ c = 6 -> "1.2000000000000002"
      [] OTHER -> Tenths(c * 10 + t)

\* _heart_shape(cx, cy, 8, color)
HeartShape(cx, cy, color) ==
    LET s == 8
        left == N(cx - s) \o " " \o FloatSum(cy, -16)
        right == N(cx + s) \o " " \o FloatSum(cy, -16)
        top == XY(cx, cy - s) \o " " \o N(cx) \o " " \o FloatSum(cy, -16)
        tip == N(cx) \o " " \o FloatSum(cy, 48)
    IN  Void("path",
             <<Attr("d", "M" \o tip
                         \o " Q" \o left \o " " \o FloatSum(cx, -40) \o " " \o FloatSum(cy, -48)
                         \o " Q" \o top
                         \o " Q" \o XY(cx, cy - s) \o " " \o FloatSum(cx, 40) \o " "
                             \o FloatSum(cy, -48)
                         \o " Q" \o right \o " " \o tip \o " Z"),
               Attr("fill", color)>>)

(***************************************************************************)
(* LionVisualizer._pattern and _body                                       *)
(***************************************************************************)
\* the overlays of the legendary patterns
ColorsMap ==
    [aurora |-> <<"#00FF88", "#8800FF", "#00AAFF">>,
     quantum |-> <<"#00FFFF", "#FF00FF", "#FFFF00">>,
     cosmic_dust |-> <<"#FFD700", "#FF69B4", "#87CEEB">>,
     void |-> <<"#2C003E", "#000000", "#1A001A">>]

\* what _pattern draws between <g> and </g>
PatternMarks(pattern, cx, cy, c, seed) ==
    LET dark == c.shadow
    IN  CASE pattern = "spots" ->
                ForRange(12, LAMBDA i :
                    LET sx == cx - 60 + ((seed * (i + 1) * 13) % 120)
                        sy == cy - 60 + ((seed * (i + 1) * 17) % 120)
                        sr == 5 + ((seed + i) % 8)
                    IN  <<Void("circle", <<Attr("cx", N(sx)), Attr("cy", N(sy)),
                                           Attr("r", N(sr)), Attr("fill", dark)>>)>>)
          [] pattern = "stripes" ->
                ForRange(7, LAMBDA i :
                    LET y == cy - 70 + i * 24
                    IN  <<Void("rect", <<Attr("x", N(cx - 85)), Attr("y", N(y)),
                                         Attr("width", "170"), Attr("height", "8"),
                                         Attr("rx", "4"), Attr("fill", dark)>>)>>)
          [] pattern = "gradient" ->
                \* the rect appended first is replaced by the ellipse
                <<Void("ellipse", <<Attr("cx", N(cx)), Attr("cy", N(cy + 40)),
                                    Attr("rx", "88"), Attr("ry", "60"), Attr("fill", dark),
                                    Attr("opacity", "0.25")>>)>>
          [] pattern = "swirls" ->
                <<Void("path", <<Attr("d", "M" \o XY(cx - 40, cy) \o " Q"
                                     \o XY(cx - 20, cy - 40) \o " " \o XY(cx, cy) \o " T"
                                     \o XY(cx + 40, cy)),
                                 Attr("stroke", dark), Attr("stroke-width", "4"),
                                 Attr("fill", "none")>>),
                  Void("path", <<Attr("d", "M" \o XY(cx - 30, cy + 20) \o " Q"
                                     \o XY(cx, cy - 10) \o " " \o XY(cx + 30, cy + 20)),
                                 Attr("stroke", dark), Attr("stroke-width", "3"),
                                 Attr("fill", "none")>>)>>
          [] pattern = "stars" ->
                ForRange(8, LAMBDA i :
                    LET sx == cx - 50 + ((seed * (i + 1) * 19) % 100)
                        sy == cy - 50 + ((seed * (i + 1) * 23) % 100)
                    IN  <<StarShape(sx, sy, 60, 30, dark)>>)
          [] pattern = "hearts" ->
                ForRange(6, LAMBDA i :
                    LET hx == cx - 45 + ((seed * (i + 1) * 31) % 90)
                        hy == cy - 45 + ((seed * (i + 1) * 37) % 90)
                    IN  <<HeartShape(hx, hy, dark)>>)
          [] pattern = "diamonds" ->
                ForRange(8, LAMBDA i :
                    LET dx == cx - 50 + ((seed * (i + 1) * 41) % 100)
                        dy == cy - 50 + ((seed * (i + 1) * 43) % 100)
                        s == 8
                    IN  <<Void("polygon", <<Attr("points", Pt(dx, dy - s) \o " "
                                                \o Pt(dx + s, dy) \o " " \o Pt(dx, dy + s)
                                                \o " " \o Pt(dx - s, dy)),
                                            Attr("fill", dark)>>)>>)
          [] pattern = "fractals" ->
                ForRange(10, LAMBDA i :
                    LET fx == cx - 50 + ((seed * (i + 1) * 47) % 100)
                        fy == cy - 50 + ((seed * (i + 1) * 53) % 100)
                        s == 6 + (i % 5)
                    IN  <<Void("polygon", <<Attr("points", Pt(fx, fy - s) \o " "
                                                \o Pt(fx + s, fy + s) \o " "
                                                \o Pt(fx - s, fy + s)),
                                            Attr("fill", dark), Attr("opacity", "0.6")>>)>>)
          [] pattern = "nebula" ->
                ForRange(4, LAMBDA i :
                    LET nx == cx - 40 + ((seed * (i + 1) * 59) % 80)
                        ny == cy - 40 + ((seed * (i + 1) * 61) % 80)
                        colors == <<"#9B59B6", "#3498DB", "#E74C3C", "#2ECC71">>
                    IN  <<Void("circle", <<Attr("cx", N(nx)), Attr("cy", N(ny)),
                                           Attr("r", N(15 + i * 5)),
                                           Attr("fill", colors[i + 1]),
                                           Attr("opacity", "0.15")>>)>>)
          [] pattern = "lightning" ->
                <<Void("path", <<Attr("d", "M" \o XY(cx - 20, cy - 60) \o " L"
                                     \o XY(cx - 5, cy - 10) \o " L" \o XY(cx - 15, cy - 10)
                                     \o " L" \o XY(cx + 10, cy + 50)),
                                 Attr("stroke", "#FFD700"), Attr("stroke-width", "3"),
                                 Attr("fill", "none")>>)>>
          [] pattern = "flames" ->
                ForRange(5, LAMBDA i :
                    LET fx == cx - 30 + i * 15
                    IN  <<Void("path", <<Attr("d", "M" \o XY(fx, cy + 60) \o " Q"
                                             \o XY(fx + 5, cy + 20) \o " "
                                             \o XY(fx - 3, cy + 10) \o " Q"
                                             \o XY(fx + 8, cy - 10) \o " "
                                             \o XY(fx + 2, cy - 20)),
                                         Attr("stroke", "#FF4500"),
                                         Attr("stroke-width", "2"), Attr("fill", "none"),
                                         Attr("opacity", "0.6")>>)>>)
          [] pattern \in {"aurora", "quantum", "cosmic_dust", "void"} ->
                LET cols == ColorsMap[pattern]
                IN  ForRange(Len(cols), LAMBDA i :
                        LET col == cols[i + 1]
                            ny == cy - 30 + i * 30
                        IN  <<Void("ellipse", <<Attr("cx", N(cx)), Attr("cy", N(ny)),
                                                Attr("rx", "80"), Attr("ry", "20"),
                                                Attr("fill", col), Attr("opacity", "0.15")>>)>>)
          [] OTHER ->
                \* rosettes, patches and any other value
                ForRange(8, LAMBDA i :
                    LET rx == cx - 50 + ((seed * (i + 1) * 67) % 100)
                        ry_pos == cy - 50 + ((seed * (i + 1) * 71) % 100)
                        r == 8 + (i % 5)
                    IN  <<Void("circle", <<Attr("cx", N(rx)), Attr("cy", N(ry_pos)),
                                           Attr("r", N(r)), Attr("fill", "none"),
                                           Attr("stroke", dark), Attr("stroke-width", "2")>>)>>)

\* _pattern(pattern, cx, cy, c, seed): no line for solid and none
Pattern(pattern, cx, cy, c, seed) ==
    IF pattern = "solid" \/ pattern = "none" THEN <<>>
    ELSE <<Open("g", <<Attr("clip-path", "url(#body-clip)"), Attr("opacity", "0.3")>>)>>
         \o PatternMarks(pattern, cx, cy, c, seed)
         \o <<Close("g")>>

\* _body(c, pattern, cx, cy, seed).  The mane petals are filled with
\* c.mane; the mane_fill the method computes first is not used.
Body(c, pattern, cx, cy, seed) ==
    ForRange(16, LAMBDA i :
        LET AngleText == Tenths(i * 225)
            rx == 130 + ((seed + i * 7) % 20)
            ry == 55 + ((seed + i * 11) % 15)
        IN  <<Void("ellipse", <<Attr("cx", N(cx)), Attr("cy", N(cy)), Attr("rx", N(rx)),
                                Attr("ry", N(ry)), Attr("fill", c.mane),
                                Attr("transform", "rotate(" \o AngleText \o " " \o N(cx)
                                    \o " " \o N(cy) \o ")"),
                                Attr("opacity", "0.75")>>)>>)
    \o <<Void("circle", <<Attr("cx", N(cx)), Attr("cy", N(cy)), Attr("r", "110"),
                          Attr("fill", c.mane2), Attr("opacity", "0.5")>>)>>
    \o ForEach(<<-68, 68>>, LAMBDA dx :
        LET ex == cx + dx
            ey == cy - 68
        IN  <<Void("circle", <<Attr("cx", N(ex)), Attr("cy", N(ey)), Attr("r", "22"),
                               Attr("fill", c.main)>>),
              Void("circle", <<Attr("cx", N(ex)), Attr("cy", N(ey)), Attr("r", "12"),
                               Attr("fill", c.highlight), Attr("opacity", "0.5")>>)>>)
    \o <<Void("circle", <<Attr("cx", N(cx)), Attr("cy", N(cy)), Attr("r", "90"),
                          Attr("fill", c.main), Attr("filter", "url(#shadow)")>>),
         Void("ellipse", <<Attr("cx", N(cx)), Attr("cy", N(cy + 30)), Attr("rx", "48"),
                           Attr("ry", "38"), Attr("fill", c.highlight),
                           Attr("opacity", "0.5")>>)>>
    \o JoinLines(Pattern(pattern, cx, cy, c, seed))

(***************************************************************************)
(* LionVisualizer._face                                                    *)
(***************************************************************************)
\* the eyes
Eyes(expr, cx, eye_y) ==
    CASE expr = "sleepy" ->
            <<Void("line", <<Attr("x1", N(cx - 40)), Attr("y1", N(eye_y)),
                             Attr("x2", N(cx - 20)), Attr("y2", N(eye_y)),
                             Attr("stroke", "#000"), Attr("stroke-width", "3"),
                             Attr("stroke-linecap", "round")>>),
              Void("line", <<Attr("x1", N(cx + 20)), Attr("y1", N(eye_y)),
                             Attr("x2", N(cx + 40)), Attr("y2", N(eye_y)),
                             Attr("stroke", "#000"), Attr("stroke-width", "3"),
                             Attr("stroke-linecap", "round")>>)>>
      [] expr = "surprised" ->
            ForEach(<<-30, 30>>, LAMBDA dx :
                <<Void("circle", <<Attr("cx", N(cx + dx)), Attr("cy", N(eye_y)),
                                   Attr("r", "14"), Attr("fill", "white"),
                                   Attr("stroke", "#000"), Attr("stroke-width", "2")>>),
                  Void("circle", <<Attr("cx", N(cx + dx)), Attr("cy", N(eye_y)),
                                   Attr("r", "6"), Attr("fill", "#000")>>),
                  Void("circle", <<Attr("cx", N(cx + dx + 2)), Attr("cy", N(eye_y - 3)),
                                   Attr("r", "2"), Attr("fill", "white")>>)>>)
      [] expr = "winking" ->
            <<Void("ellipse", <<Attr("cx", N(cx - 30)), Attr("cy", N(eye_y)),
                                Attr("rx", "11"), Attr("ry", "10"), Attr("fill", "#FFD700")>>),
              Void("circle", <<Attr("cx", N(cx - 30)), Attr("cy", N(eye_y)), Attr("r", "4"),
                               Attr("fill", "#000")>>),
              Void("path", <<Attr("d", "M" \o XY(cx + 20, eye_y) \o " Q"
                                 \o XY(cx + 30, eye_y - 8) \o " " \o XY(cx + 40, eye_y)),
                             Attr("stroke", "#000"), Attr("stroke-width", "2.5"),
                             Attr("fill", "none"), Attr("stroke-linecap", "round")>>)>>
      [] expr = "angry" ->
            ForEach(<<-30, 30>>, LAMBDA dx :
                <<Void("ellipse", <<Attr("cx", N(cx + dx)), Attr("cy", N(eye_y)),
                                    Attr("rx", "11"), Attr("ry", "8"),
                                    Attr("fill", "#FF4444")>>),
                  Void("circle", <<Attr("cx", N(cx + dx)), Attr("cy", N(eye_y)),
                                   Attr("r", "4"), Attr("fill", "#000")>>)>>)
            \o <<Void("line", <<Attr("x1", N(cx - 42)), Attr("y1", N(eye_y - 14)),
                                Attr("x2", N(cx - 18)), Attr("y2", N(eye_y - 20)),
                                Attr("stroke", "#000"), Attr("stroke-width", "3"),
                                Attr("stroke-linecap", "round")>>),
                 Void("line", <<Attr("x1", N(cx + 42)), Attr("y1", N(eye_y - 14)),
                                Attr("x2", N(cx + 18)), Attr("y2", N(eye_y - 20)),
                                Attr("stroke", "#000"), Attr("stroke-width", "3"),
                                Attr("stroke-linecap", "round")>>)>>
      [] expr = "cool" ->
            ForEach(<<-30, 30>>, LAMBDA dx :
                <<Void("ellipse", <<Attr("cx", N(cx + dx)), Attr("cy", N(eye_y)),
                                    Attr("rx", "12"), Attr("ry", "7"),
                                    Attr("fill", "#FFD700")>>),
                  Void("ellipse", <<Attr("cx", N(cx + dx)), Attr("cy", N(eye_y)),
                                    Attr("r", "4"), Attr("fill", "#000")>>),
                  Void("line", <<Attr("x1", N(cx + dx - 14)), Attr("y1", N(eye_y - 8)),
                                 Attr("x2", N(cx + dx + 14)), Attr("y2", N(eye_y - 8)),
                                 Attr("stroke", "#000"), Attr("stroke-width", "2")>>)>>)
      [] expr \in {"zen", "enlightened", "cosmic", "divine"} ->
            ForEach(<<-30, 30>>, LAMBDA dx :
                <<Void("path", <<Attr("d", "M" \o XY(cx + dx - 12, eye_y) \o " Q"
                                     \o XY(cx + dx, eye_y - 10) \o " "
                                     \o XY(cx + dx + 12, eye_y)),
                                 Attr("stroke", "#000"), Attr("stroke-width", "2.5"),
                                 Attr("fill", "none"), Attr("stroke-linecap", "round")>>)>>)
            \o (IF expr \in {"enlightened", "divine"}
                THEN <<Void("circle", <<Attr("cx", N(cx)), Attr("cy", N(eye_y - 25)),
                                        Attr("r", "4"), Attr("fill", "#FFD700"),
                                        Attr("opacity", "0.7")>>)>>
                ELSE <<>>)
            \o (IF expr = "cosmic"
                THEN ForEach(<<-30, 30>>, LAMBDA dx :
                         <<Void("circle", <<Attr("cx", N(cx + dx)), Attr("cy", N(eye_y + 4)),
                                            Attr("r", "2"), Attr("fill", "#FFD700"),
                                            Attr("opacity", "0.5")>>)>>)
                ELSE <<>>)
      [] expr = "laughing" ->
            ForEach(<<-30, 30>>, LAMBDA dx :
                <<Void("path", <<Attr("d", "M" \o XY(cx + dx - 12, eye_y + 2) \o " Q"
                                     \o XY(cx + dx, eye_y - 10) \o " "
                                     \o XY(cx + dx + 12, eye_y + 2)),
                                 Attr("stroke", "#000"), Attr("stroke-width", "2.5"),
                                 Attr("fill", "none"), Attr("stroke-linecap", "round")>>)>>)
      [] expr = "legendary" ->
            ForEach(<<-30, 30>>, LAMBDA dx :
                <<Void("circle", <<Attr("cx", N(cx + dx)), Attr("cy", N(eye_y)),
                                   Attr("r", "12"), Attr("fill", "#FFD700"),
                                   Attr("opacity", "0.4")>>),
                  Void("circle", <<Attr("cx", N(cx + dx)), Attr("cy", N(eye_y)),
                                   Attr("r", "8"), Attr("fill", "#FFF")>>),
                  Void("circle", <<Attr("cx", N(cx + dx)), Attr("cy", N(eye_y)),
                                   Attr("r", "4"), Attr("fill", "#FFD700")>>)>>)
      [] OTHER ->
            \* happy, neutral, curious, excited, mischievous, wise, fierce
            \* and any other value
            LET eye_color == CASE expr = "fierce" -> "#FF6600"
                               [] expr = "mischievous" -> "#88DD44"
                               [] OTHER -> "#FFD700"
                pupil_r == CASE expr = "fierce" -> 3
                             [] expr = "excited" -> 5
                             [] OTHER -> 4
            IN  ForEach(<<-30, 30>>, LAMBDA dx :
                    <<Void("ellipse", <<Attr("cx", N(cx + dx)), Attr("cy", N(eye_y)),
                                        Attr("rx", "12"), Attr("ry", "10"),
                                        Attr("fill", eye_color)>>),
                      Void("circle", <<Attr("cx", N(cx + dx)), Attr("cy", N(eye_y)),
                                       Attr("r", N(pupil_r)), Attr("fill", "#000")>>),
                      Void("circle", <<Attr("cx", N(cx + dx + 2)), Attr("cy", N(eye_y - 2)),
                                       Attr("r", "2"), Attr("fill", "white"),
                                       Attr("opacity", "0.7")>>)>>)
                \o (IF expr = "wise"
                    THEN <<Void("circle", <<Attr("cx", N(cx - 30)), Attr("cy", N(eye_y)),
                                            Attr("r", "14"), Attr("fill", "none"),
                                            Attr("stroke", "#000"),
                                            Attr("stroke-width", "1"),
                                            Attr("opacity", "0.3")>>),
                           Void("circle", <<Attr("cx", N(cx + 30)), Attr("cy", N(eye_y)),
                                            Attr("r", "14"), Attr("fill", "none"),
                                            Attr("stroke", "#000"),
                                            Attr("stroke-width", "1"),
                                            Attr("opacity", "0.3")>>)>>
                    ELSE <<>>)

\* the mouth
Mouth(expr, cx, mouth_y) ==
    CASE expr = "happy" \/ expr = "excited" ->
            <<Void("path", <<Attr("d", "M" \o XY(cx - 22, mouth_y) \o " Q"
                                 \o XY(cx, mouth_y + 18) \o " " \o XY(cx + 22, mouth_y)),
                             Attr("stroke", "#3E2723"), Attr("stroke-width", "2.5"),
                             Attr("fill", "none"), Attr("stroke-linecap", "round")>>)>>
      [] expr = "angry" \/ expr = "fierce" ->
            <<Void("path", <<Attr("d", "M" \o XY(cx - 22, mouth_y + 8) \o " Q"
                                 \o XY(cx, mouth_y - 8) \o " " \o XY(cx + 22, mouth_y + 8)),
                             Attr("stroke", "#3E2723"), Attr("stroke-width", "2.5"),
                             Attr("fill", "none"), Attr("stroke-linecap", "round")>>)>>
            \o (IF expr = "fierce"
                THEN <<Void("polygon", <<Attr("points", Pt(cx - 12, mouth_y) \o " "
                                             \o Pt(cx - 9, mouth_y + 10) \o " "
                                             \o Pt(cx - 6, mouth_y)),
                                         Attr("fill", "white"), Attr("stroke", "#3E2723"),
                                         Attr("stroke-width", "0.5")>>),
                       Void("polygon", <<Attr("points", Pt(cx + 6, mouth_y) \o " "
                                             \o Pt(cx + 9, mouth_y + 10) \o " "
                                             \o Pt(cx + 12, mouth_y)),
                                         Attr("fill", "white"), Attr("stroke", "#3E2723"),
                                         Attr("stroke-width", "0.5")>>)>>
                ELSE <<>>)
      [] expr = "surprised" ->
            <<Void("ellipse", <<Attr("cx", N(cx)), Attr("cy", N(mouth_y + 5)),
                                Attr("rx", "10"), Attr("ry", "12"), Attr("fill", "#3E2723")>>)>>
      [] expr = "sleepy" ->
            <<Void("ellipse", <<Attr("cx", N(cx)), Attr("cy", N(mouth_y + 2)),
                                Attr("rx", "8"), Attr("ry", "6"), Attr("fill", "#3E2723"),
                                Attr("opacity", "0.6")>>)>>
      [] expr = "laughing" ->
            <<Void("path", <<Attr("d", "M" \o XY(cx - 25, mouth_y - 2) \o " Q"
                                 \o XY(cx, mouth_y + 25) \o " " \o XY(cx + 25, mouth_y - 2)),
                             Attr("stroke", "#3E2723"), Attr("stroke-width", "2"),
                             Attr("fill", "#3E2723"), Attr("opacity", "0.5")>>)>>
      [] expr = "mischievous" ->
            <<Void("path", <<Attr("d", "M" \o XY(cx - 15, mouth_y + 2) \o " Q"
                                 \o XY(cx + 5, mouth_y + 10) \o " "
                                 \o XY(cx + 22, mouth_y - 4)),
                             Attr("stroke", "#3E2723"), Attr("stroke-width", "2.5"),
                             Attr("fill", "none"), Attr("stroke-linecap", "round")>>)>>
      [] expr = "cool" ->
            <<Void("path", <<Attr("d", "M" \o XY(cx - 18, mouth_y + 2) \o " Q"
                                 \o XY(cx, mouth_y + 10) \o " " \o XY(cx + 18, mouth_y)),
                             Attr("stroke", "#3E2723"), Attr("stroke-width", "2"),
                             Attr("fill", "none"), Attr("stroke-linecap", "round")>>)>>
      [] expr \in {"zen", "enlightened", "cosmic", "divine", "legendary"} ->
            <<Void("path", <<Attr("d", "M" \o XY(cx - 15, mouth_y) \o " Q"
                                 \o XY(cx, mouth_y + 8) \o " " \o XY(cx + 15, mouth_y)),
                             Attr("stroke", "#3E2723"), Attr("stroke-width", "2"),
                             Attr("fill", "none"), Attr("stroke-linecap", "round")>>)>>
      [] expr = "winking" ->
            <<Void("path", <<Attr("d", "M" \o XY(cx - 20, mouth_y) \o " Q"
                                 \o XY(cx, mouth_y + 14) \o " " \o XY(cx + 20, mouth_y)),
                             Attr("stroke", "#3E2723"), Attr("stroke-width", "2.5"),
                             Attr("fill", "none"), Attr("stroke-linecap", "round")>>),
              Void("ellipse", <<Attr("cx", N(cx + 5)), Attr("cy", N(mouth_y + 8)),
                                Attr("rx", "5"), Attr("ry", "4"), Attr("fill", "#E88090")>>)>>
      [] OTHER ->
            <<Void("line", <<Attr("x1", N(cx - 15)), Attr("y1", N(mouth_y)),
                             Attr("x2", N(cx + 15)), Attr("y2", N(mouth_y)),
                             Attr("stroke", "#3E2723"), Attr("stroke-width", "2"),
                             Attr("stroke-linecap", "round")>>)>>

\* _face(expr, cx, cy, colors): eyes, nose, mouth and whiskers
Face(expr, cx, cy, colors) ==
    LET eye_y == cy - 12
        nose_y == cy + 20
        mouth_y == nose_y + 18
    IN  Eyes(expr, cx, eye_y)
        \o <<Void("path", <<Attr("d", "M" \o XY(cx - 12, nose_y) \o " Q"
                                \o XY(cx, nose_y - 8) \o " " \o XY(cx + 12, nose_y) \o " L"
                                \o XY(cx, nose_y + 12) \o " Z"),
                            Attr("fill", "#3E2723")>>)>>
        \o Mouth(expr, cx, mouth_y)
        \o ForEach(<<-1, 1>>, LAMBDA side :
              ForEach(<<-5, 5>>, LAMBDA wy :
                  LET wx1 == cx + side * 30
                      wx2 == cx + side * 70
                  IN  <<Void("line", <<Attr("x1", N(wx1)), Attr("y1", N(nose_y + wy)),
                                       Attr("x2", N(wx2)),
                                       Attr("y2", N(nose_y + wy + side * 3)),
                                       Attr("stroke", "#3E2723"), Attr("stroke-width", "1"),
                                       Attr("opacity", "0.3")>>)>>))

(***************************************************************************)
(* LionVisualizer._accessory                                               *)
(***************************************************************************)
\* _accessory(acc, cx, cy, colors): no line for none and for a value it
\* does not know
Accessory(acc, cx, cy, colors) ==
    CASE acc = "crown" \/ acc = "golden_crown" ->
            LET color == IF acc = "crown" THEN "#FFD700" ELSE "#FFC800"
                stroke == IF acc = "crown" THEN "#B8860B" ELSE "#DAA520"
                y == cy - 95
            IN  <<Void("polygon", <<Attr("points", Pt(cx - 30, y + 20) \o " "
                                        \o Pt(cx - 30, y) \o " " \o Pt(cx - 18, y + 12)
                                        \o " " \o Pt(cx - 6, y - 5) \o " " \o Pt(cx, y + 8)
                                        \o " " \o Pt(cx + 6, y - 5) \o " "
                                        \o Pt(cx + 18, y + 12) \o " " \o Pt(cx + 30, y)
                                        \o " " \o Pt(cx + 30, y + 20)),
                                    Attr("fill", color), Attr("stroke", stroke),
                                    Attr("stroke-width", "1.5")>>)>>
                \o (IF acc = "golden_crown"
                    THEN ForEach(<<-15, 0, 15>>, LAMBDA jx :
                             <<Void("circle", <<Attr("cx", N(cx + jx)), Attr("cy", N(y + 8)),
                                                Attr("r", "3"), Attr("fill", "#FF0040")>>)>>)
                    ELSE <<>>)
      [] acc = "sunglasses" ->
            LET y == cy - 14
            IN  <<Void("rect", <<Attr("x", N(cx - 46)), Attr("y", N(y - 10)),
                                 Attr("width", "28"), Attr("height", "18"), Attr("rx", "4"),
                                 Attr("fill", "#111"), Attr("opacity", "0.85")>>),
                  Void("rect", <<Attr("x", N(cx + 18)), Attr("y", N(y - 10)),
                                 Attr("width", "28"), Attr("height", "18"), Attr("rx", "4"),
                                 Attr("fill", "#111"), Attr("opacity", "0.85")>>),
                  Void("line", <<Attr("x1", N(cx - 18)), Attr("y1", N(y)),
                                 Attr("x2", N(cx + 18)), Attr("y2", N(y)),
                                 Attr("stroke", "#333"), Attr("stroke-width", "2")>>),
                  Void("line", <<Attr("x1", N(cx - 46)), Attr("y1", N(y - 4)),
                                 Attr("x2", N(cx - 60)), Attr("y2", N(y - 10)),
                                 Attr("stroke", "#333"), Attr("stroke-width", "2")>>),
                  Void("line", <<Attr("x1", N(cx + 46)), Attr("y1", N(y - 4)),
                                 Attr("x2", N(cx + 60)), Attr("y2", N(y - 10)),
                                 Attr("stroke", "#333"), Attr("stroke-width", "2")>>)>>
      [] acc = "monocle" ->
            LET y == cy - 12
            IN  <<Void("circle", <<Attr("cx", N(cx + 30)), Attr("cy", N(y)), Attr("r", "16"),
                                   Attr("fill", "none"), Attr("stroke", "#B8860B"),
                                   Attr("stroke-width", "2")>>),
                  Void("line", <<Attr("x1", N(cx + 30)), Attr("y1", N(y + 16)),
                                 Attr("x2", N(cx + 25)), Attr("y2", N(cy + 60)),
                                 Attr("stroke", "#B8860B"), Attr("stroke-width", "1")>>),
                  Void("path", <<Attr("d", "M" \o XY(cx + 24, y - 8) \o " Q"
                                     \o XY(cx + 28, y - 12) \o " " \o XY(cx + 34, y - 8)),
                                 Attr("stroke", "white"), Attr("stroke-width", "1"),
                                 Attr("fill", "none"), Attr("opacity", "0.5")>>)>>
      [] acc = "bow" ->
            LET y == cy - 85
            IN  <<Void("path", <<Attr("d", "M" \o XY(cx + 35, y) \o " Q"
                                     \o XY(cx + 55, y - 15) \o " " \o XY(cx + 55, y + 15)
                                     \o " Z"),
                                 Attr("fill", "#FF69B4")>>),
                  Void("path", <<Attr("d", "M" \o XY(cx + 35, y) \o " Q"
                                     \o XY(cx + 15, y - 15) \o " " \o XY(cx + 15, y + 15)
                                     \o " Z"),
                                 Attr("fill", "#FF69B4")>>),
                  Void("circle", <<Attr("cx", N(cx + 35)), Attr("cy", N(y)), Attr("r", "4"),
                                   Attr("fill", "#FF1493")>>)>>
      [] acc = "simple_hat" ->
            LET y == cy - 95
            IN  <<Void("ellipse", <<Attr("cx", N(cx)), Attr("cy", N(y + 20)),
                                    Attr("rx", "55"), Attr("ry", "10"),
                                    Attr("fill", "#8B4513")>>),
                  Void("rect", <<Attr("x", N(cx - 30)), Attr("y", N(y - 10)),
                                 Attr("width", "60"), Attr("height", "30"), Attr("rx", "5"),
                                 Attr("fill", "#A0522D")>>)>>
      [] acc = "bandana" ->
            LET y == cy - 80
            IN  <<Void("path", <<Attr("d", "M" \o XY(cx - 60, y) \o " Q" \o XY(cx, y + 15)
                                     \o " " \o XY(cx + 60, y)),
                                 Attr("stroke", "#D32F2F"), Attr("stroke-width", "8"),
                                 Attr("fill", "none")>>),
                  Void("path", <<Attr("d", "M" \o XY(cx + 50, y + 2) \o " L"
                                     \o XY(cx + 65, y + 20) \o " L" \o XY(cx + 55, y + 22)),
                                 Attr("fill", "#D32F2F")>>)>>
      [] acc = "headphones" ->
            LET y == cy - 20
            IN  <<Void("path", <<Attr("d", "M" \o XY(cx - 65, y) \o " Q"
                                     \o XY(cx - 65, cy - 85) \o " " \o XY(cx, cy - 90)
                                     \o " Q" \o XY(cx + 65, cy - 85) \o " " \o XY(cx + 65, y)),
                                 Attr("stroke", "#333"), Attr("stroke-width", "5"),
                                 Attr("fill", "none")>>),
                  Void("ellipse", <<Attr("cx", N(cx - 68)), Attr("cy", N(y + 5)),
                                    Attr("rx", "12"), Attr("ry", "16"), Attr("fill", "#444")>>),
                  Void("ellipse", <<Attr("cx", N(cx + 68)), Attr("cy", N(y + 5)),
                                    Attr("rx", "12"), Attr("ry", "16"), Attr("fill", "#444")>>)>>
      [] acc = "scarf" ->
            LET y == cy + 70
            IN  <<Void("path", <<Attr("d", "M" \o XY(cx - 50, y) \o " Q" \o XY(cx, y + 15)
                                     \o " " \o XY(cx + 50, y)),
                                 Attr("stroke", "#E74C3C"), Attr("stroke-width", "12"),
                                 Attr("fill", "none"), Attr("stroke-linecap", "round")>>),
                  Void("path", <<Attr("d", "M" \o XY(cx + 40, y + 5) \o " L"
                                     \o XY(cx + 35, y + 35) \o " L" \o XY(cx + 50, y + 30)),
                                 Attr("fill", "#C0392B")>>)>>
      [] acc = "earring" ->
            <<Void("circle", <<Attr("cx", N(cx + 72)), Attr("cy", N(cy - 55)),
                               Attr("r", "5"), Attr("fill", "#FFD700"),
                               Attr("stroke", "#B8860B"), Attr("stroke-width", "1")>>),
              Void("circle", <<Attr("cx", N(cx + 72)), Attr("cy", N(cy - 45)),
                               Attr("r", "3"), Attr("fill", "#FFD700")>>)>>
      [] acc = "laser_eyes" ->
            LET y == cy - 12
            IN  <<Void("line", <<Attr("x1", N(cx - 30)), Attr("y1", N(y)),
                                 Attr("x2", N(cx - 120)), Attr("y2", N(y + 40)),
                                 Attr("stroke", "#FF0000"), Attr("stroke-width", "3"),
                                 Attr("opacity", "0.7")>>),
                  Void("line", <<Attr("x1", N(cx + 30)), Attr("y1", N(y)),
                                 Attr("x2", N(cx + 120)), Attr("y2", N(y + 40)),
                                 Attr("stroke", "#FF0000"), Attr("stroke-width", "3"),
                                 Attr("opacity", "0.7")>>),
                  Void("circle", <<Attr("cx", N(cx - 30)), Attr("cy", N(y)), Attr("r", "6"),
                                   Attr("fill", "#FF0000"), Attr("opacity", "0.5")>>),
                  Void("circle", <<Attr("cx", N(cx + 30)), Attr("cy", N(y)), Attr("r", "6"),
                                   Attr("fill", "#FF0000"), Attr("opacity", "0.5")>>)>>
      [] acc = "halo" ->
            LET y == cy - 105
            IN  <<Void("ellipse", <<Attr("cx", N(cx)), Attr("cy", N(y)), Attr("rx", "45"),
                                    Attr("ry", "12"), Attr("fill", "none"),
                                    Attr("stroke", "#FFD700"), Attr("stroke-width", "3"),
                                    Attr("opacity", "0.8")>>),
                  Void("ellipse", <<Attr("cx", N(cx)), Attr("cy", N(y)), Attr("rx", "45"),
                                    Attr("ry", "12"), Attr("fill", "#FFD700"),
                                    Attr("opacity", "0.1")>>)>>
      [] acc = "horns" ->
            ForEach(<<-1, 1>>, LAMBDA side :
                LET hx == cx + side * 55
                IN  <<Void("path", <<Attr("d", "M" \o XY(hx, cy - 75) \o " Q"
                                         \o XY(hx + side * 25, cy - 120) \o " "
                                         \o XY(hx + side * 15, cy - 130)),
                                     Attr("stroke", "#4A2800"), Attr("stroke-width", "8"),
                                     Attr("fill", "none"), Attr("stroke-linecap", "round")>>)>>)
      [] acc = "wizard_hat" ->
            LET y == cy - 90
            IN  <<Void("polygon", <<Attr("points", Pt(cx, y - 80) \o " "
                                        \o Pt(cx - 45, y + 10) \o " " \o Pt(cx + 45, y + 10)),
                                    Attr("fill", "#2C3E80")>>),
                  Void("ellipse", <<Attr("cx", N(cx)), Attr("cy", N(y + 10)),
                                    Attr("rx", "55"), Attr("ry", "10"),
                                    Attr("fill", "#1A2550")>>),
                  StarShape(cx - 10, y - 30, 50, 25, "#FFD700"),
                  StarShape(cx + 15, y - 50, 40, 20, "#FFD700")>>
      [] acc = "diamond_chain" ->
            LET y == cy + 65
            IN  ForRange(7, LAMBDA i :
                    LET dx == cx - 42 + i * 14
                        s == 5
                    IN  <<Void("polygon", <<Attr("points", Pt(dx, y - s) \o " "
                                                \o Pt(dx + s, y) \o " " \o Pt(dx, y + s)
                                                \o " " \o Pt(dx - s, y)),
                                            Attr("fill", "#87CEEB"),
                                            Attr("stroke", "#4A90D9"),
                                            Attr("stroke-width", "0.5")>>)>>)
                \o <<Void("line", <<Attr("x1", N(cx - 48)), Attr("y1", N(y)),
                                    Attr("x2", N(cx + 48)), Attr("y2", N(y)),
                                    Attr("stroke", "#B8B8B8"), Attr("stroke-width", "1.5")>>)>>
      [] acc = "jetpack" ->
            ForEach(<<-1, 1>>, LAMBDA side :
                LET jx == cx + side * 85
                IN  <<Void("rect", <<Attr("x", N(jx - 8)), Attr("y", N(cy - 20)),
                                     Attr("width", "16"), Attr("height", "40"),
                                     Attr("rx", "4"), Attr("fill", "#666")>>),
                      Void("rect", <<Attr("x", N(jx - 5)), Attr("y", N(cy + 20)),
                                     Attr("width", "10"), Attr("height", "8"),
                                     Attr("rx", "2"), Attr("fill", "#FF4500")>>),
                      Void("path", <<Attr("d", "M" \o XY(jx - 4, cy + 28) \o " L"
                                         \o XY(jx, cy + 50) \o " L" \o XY(jx + 4, cy + 28)),
                                     Attr("fill", "#FF6B00"), Attr("opacity", "0.6")>>)>>)
      [] acc = "wings" ->
            ForEach(<<-1, 1>>, LAMBDA side :
                LET wx == cx + side * 80
                IN  <<Void("path", <<Attr("d", "M" \o XY(cx + side * 60, cy - 10) \o " Q"
                                         \o XY(wx + side * 40, cy - 60) \o " "
                                         \o XY(wx + side * 30, cy - 80) \o " Q"
                                         \o XY(wx + side * 20, cy - 40) \o " "
                                         \o XY(cx + side * 60, cy + 20)),
                                     Attr("fill", "white"), Attr("stroke", "#D0D0D0"),
                                     Attr("stroke-width", "1"), Attr("opacity", "0.7")>>)>>)
      [] OTHER -> <<>>

(***************************************************************************)
(* LionVisualizer._special                                                 *)
(***************************************************************************)
\* int(140 * cos), int(140 * sin) of i * 60 degrees and int(80 * cos),
\* int(80 * sin) of i * 60 + 15 degrees, i = 0 .. 5
EnergyEnd == <<<<140, 0>>, <<70, 121>>, <<-69, 121>>, <<-140, 0>>, <<-70, -121>>, <<70, -121>>>>
EnergyBend == <<<<77, 20>>, <<20, 77>>, <<-56, 56>>, <<-77, -20>>, <<-20, -77>>, <<56, -56>>>>

\* int(135 * cos), int(135 * sin) of i * 30 degrees, i = 0 .. 11
SparkleRing ==
    <<<<135, 0>>, <<116, 67>>, <<67, 116>>, <<0, 135>>, <<-67, 116>>, <<-116, 67>>,
      <<-135, 0>>, <<-116, -67>>, <<-67, -116>>, <<0, -135>>, <<67, -116>>, <<116, -67>>>>

\* glow_colors
GlowColors == [transcendent |-> "#FFFFFF", godlike |-> "#FFD700", mythical |-> "#9B59B6"]

\* _special(special, w, h, seed): no line for none and for a value it does
\* not know
Special(special, w, h, seed) ==
    LET cx == w \div 2
        cy == h \div 2
    IN  CASE special = "sparkles" ->
                ForRange(10, LAMBDA i :
                    LET sx == (seed * (i + 1) * 19) % w
                        sy == (seed * (i + 1) * 23) % h
                        size == 4 + (i % 5)
                    IN  <<StarShape(sx, sy, size * 10, size * 4, "#FFD700")>>)
          [] special = "glow" ->
                LET golden == Get(BODY_COLORS, "golden", BODY_COLORS.brown)
                IN  <<Void("circle", <<Attr("cx", N(cx)), Attr("cy", N(cy)),
                                       Attr("r", "100"), Attr("fill", golden.highlight),
                                       Attr("opacity", "0.15"), Attr("filter", "url(#glow)")>>)>>
          [] special = "shadow" ->
                <<Void("ellipse", <<Attr("cx", N(cx)), Attr("cy", N(cy + 100)),
                                    Attr("rx", "90"), Attr("ry", "20"), Attr("fill", "#000"),
                                    Attr("opacity", "0.2")>>)>>
          [] special = "aura" ->
                LET colors == <<"#FF6B6B", "#FFD93D", "#6BCB77">>
                IN  ForRange(Len(colors), LAMBDA i :
                        LET c == colors[i + 1]
                            r == 130 + i * 15
                        IN  <<Void("circle", <<Attr("cx", N(cx)), Attr("cy", N(cy)),
                                               Attr("r", N(r)), Attr("fill", "none"),
                                               Attr("stroke", c), Attr("stroke-width", "2"),
                                               Attr("opacity", "0.2")>>)>>)
          [] special = "particles" ->
                ForRange(15, LAMBDA i :
                    LET px == (seed * (i + 1) * 29) % w
                        py == (seed * (i + 1) * 31) % h
                    IN  <<Void("circle", <<Attr("cx", N(px)), Attr("cy", N(py)),
                                           Attr("r", N(2 + (i % 3))),
                                           Attr("fill", "#88CCFF"), Attr("opacity", "0.4")>>)>>)
          [] special = "energy" ->
                ForRange(6, LAMBDA i :
                    LET x2 == cx + EnergyEnd[i + 1][1]
                        y2 == cy + EnergyEnd[i + 1][2]
                        mx == cx + EnergyBend[i + 1][1]
                        my == cy + EnergyBend[i + 1][2]
                    IN  <<Void("path", <<Attr("d", "M" \o XY(cx, cy) \o " Q" \o XY(mx, my)
                                             \o " " \o XY(x2, y2)),
                                         Attr("stroke", "#00FFFF"),
                                         Attr("stroke-width", "1.5"), Attr("fill", "none"),
                                         Attr("opacity", "0.3")>>)>>)
          [] special \in {"transcendent", "godlike", "mythical"} ->
                LET gc == GlowColors[special]
                IN  <<Void("circle", <<Attr("cx", N(cx)), Attr("cy", N(cy)),
                                       Attr("r", "140"), Attr("fill", gc),
                                       Attr("opacity", "0.06")>>),
                      Void("circle", <<Attr("cx", N(cx)), Attr("cy", N(cy)),
                                       Attr("r", "120"), Attr("fill", gc),
                                       Attr("opacity", "0.08")>>),
                      Void("circle", <<Attr("cx", N(cx)), Attr("cy", N(cy)),
                                       Attr("r", "100"), Attr("fill", gc),
                                       Attr("opacity", "0.06")>>)>>
                    \o ForRange(12, LAMBDA i :
                        LET sx == cx + SparkleRing[i + 1][1]
                            sy == cy + SparkleRing[i + 1][2]
                        IN  <<StarShape(sx, sy, 50, 20, gc)>>)
          [] OTHER -> <<>>

(***************************************************************************)
(* LionVisualizer.generate_svg and generate_thumbnail                      *)
(***************************************************************************)
DefaultWidth == 400
DefaultHeight == 400
DefaultSize == 100
DefaultSeed == 12345

RECURSIVE HexValue(_)
\* int(digits, 16), the digits given by their values
HexValue(digits) ==
    IF digits = <<>> THEN 0
    ELSE HexValue(SubSeq(digits, 1, Len(digits) - 1)) * 16 + digits[Len(digits)]

\* a mutant: the first 7 characters of the hash are read, not the first 8
SeedOfSevenCharacters(dna_hash) ==
    IF dna_hash = <<>> THEN DefaultSeed
    ELSE HexValue(SubSeq(dna_hash, 1, IF Len(dna_hash) < 7 THEN Len(dna_hash) ELSE 7))

\* the render seed: the base-16 value of dna_hash[:8], or the constant
\* when there is no hash
Seed(dna_hash) ==
    IF dna_hash = <<>> THEN DefaultSeed
    ELSE HexValue(SubSeq(dna_hash, 1, IF Len(dna_hash) < 8 THEN Len(dna_hash) ELSE 8))

\* a mutant: a legendary body colour is drawn as golden
TraitValueByRarity(traits, category) ==
    IF category \in Keys(traits)
    THEN IF category = "body_color" /\ traits[category].rarity = "legendary"
         THEN "golden" ELSE traits[category].value
    ELSE "none"

\* a mutant: an absent trait takes the first value of its category
TraitValueBaseDefault(traits, category) ==
    IF category \in Keys(traits) THEN traits[category].value
    ELSE BaseTraits[category].value

\* v.value if v else "none", for v = traits.get(category)
TraitValue(traits, category) ==
    IF category \in Keys(traits) THEN traits[category].value ELSE "none"

\* a mutant: the document opens with a title that names the body colour
GenerateSvgWithTitle(d, width, height) ==
    LET t == [body_color |-> TraitValue(d.traits, "body_color"),
              expression |-> TraitValue(d.traits, "face_expression"),
              accessory |-> TraitValue(d.traits, "accessory"),
              pattern |-> TraitValue(d.traits, "pattern"),
              background |-> TraitValue(d.traits, "background"),
              special |-> TraitValue(d.traits, "special")]
        seed == Seed(d.dna_hash)
        cx == width \div 2
        cy == height \div 2
        colors == Get(BODY_COLORS, t.body_color, BODY_COLORS.brown)
        background == Background(t.background, width, height, seed)
    IN  IF background.kind = "raise" THEN background
        ELSE Return(<<Open("svg", <<Attr("width", N(width)), Attr("height", N(height)),
                                    Attr("viewBox", "0 0 " \o XY(width, height)),
                                    Attr("xmlns", "http://www.w3.org/2000/svg")>>),
                      Full("title", <<>>, t.body_color \o " lion")>>
                    \o Defs(t, colors, width, height)
                    \o background.value
                    \o Body(colors, t.pattern, cx, cy, seed)
                    \o Face(t.expression, cx, cy, colors)
                    \o JoinLines(Accessory(t.accessory, cx, cy, colors))
                    \o JoinLines(Special(t.special, width, height, seed))
                    \o <<Close("svg")>>)

\* a mutant: the face is emitted before the body, which then covers it
GenerateSvgFaceUnderBody(d, width, height) ==
    LET t == [body_color |-> TraitValue(d.traits, "body_color"),
              expression |-> TraitValue(d.traits, "face_expression"),
              accessory |-> TraitValue(d.traits, "accessory"),
              pattern |-> TraitValue(d.traits, "pattern"),
              background |-> TraitValue(d.traits, "background"),
              special |-> TraitValue(d.traits, "special")]
        seed == Seed(d.dna_hash)
        cx == width \div 2
        cy == height \div 2
        colors == Get(BODY_COLORS, t.body_color, BODY_COLORS.brown)
        background == Background(t.background, width, height, seed)
    IN  IF background.kind = "raise" THEN background
        ELSE Return(<<Open("svg", <<Attr("width", N(width)), Attr("height", N(height)),
                                    Attr("viewBox", "0 0 " \o XY(width, height)),
                                    Attr("xmlns", "http://www.w3.org/2000/svg")>>)>>
                    \o Defs(t, colors, width, height)
                    \o background.value
                    \o Face(t.expression, cx, cy, colors)
                    \o Body(colors, t.pattern, cx, cy, seed)
                    \o JoinLines(Accessory(t.accessory, cx, cy, colors))
                    \o JoinLines(Special(t.special, width, height, seed))
                    \o <<Close("svg")>>)

\* generate_svg(dna, width, height): the document, or the error that
\* _background raised
GenerateSvg(d, width, height) ==
    LET t == [body_color |-> TraitValue(d.traits, "body_color"),
              expression |-> TraitValue(d.traits, "face_expression"),
              accessory |-> TraitValue(d.traits, "accessory"),
              pattern |-> TraitValue(d.traits, "pattern"),
              background |-> TraitValue(d.traits, "background"),
              special |-> TraitValue(d.traits, "special")]
        seed == Seed(d.dna_hash)
        cx == width \div 2
        cy == height \div 2
        colors == Get(BODY_COLORS, t.body_color, BODY_COLORS.brown)
        background == Background(t.background, width, height, seed)
    IN  IF background.kind = "raise" THEN background
        ELSE Return(<<Open("svg", <<Attr("width", N(width)), Attr("height", N(height)),
                                    Attr("viewBox", "0 0 " \o XY(width, height)),
                                    Attr("xmlns", "http://www.w3.org/2000/svg")>>)>>
                    \o Defs(t, colors, width, height)
                    \o background.value
                    \o Body(colors, t.pattern, cx, cy, seed)
                    \o Face(t.expression, cx, cy, colors)
                    \o JoinLines(Accessory(t.accessory, cx, cy, colors))
                    \o JoinLines(Special(t.special, width, height, seed))
                    \o <<Close("svg")>>)

\* generate_thumbnail(dna, size)
GenerateThumbnail(d, size) == GenerateSvg(d, size, size)

(***************************************************************************)
(* Calls of generate_svg and generate_thumbnail.  The call's positional    *)
(* arguments after the record are arg.args; those left out take their      *)
(* defaults.                                                               *)
(***************************************************************************)
\* the values the evolution prompt offers, per category
Vocabulary ==
    [body_color |-> {"brown", "tan", "beige", "gray", "golden", "silver", "copper", "bronze",
                     "blue", "purple", "green", "pink", "rainbow", "galaxy", "holographic",
                     "crystal"},
     face_expression |-> {"happy", "neutral", "curious", "sleepy", "excited", "mischievous",
                          "wise", "cool", "surprised", "laughing", "winking", "zen",
                          "enlightened", "cosmic", "legendary", "divine"},
     accessory |-> {"none", "simple_hat", "bandana", "bow", "sunglasses", "crown",
                    "headphones", "monocle", "laser_eyes", "halo", "horns", "wizard_hat",
                    "golden_crown", "diamond_chain", "jetpack", "wings"},
     pattern |-> {"solid", "spots", "stripes", "gradient", "swirls", "stars", "hearts",
                  "diamonds", "fractals", "nebula", "lightning", "flames", "aurora", "quantum",
                  "cosmic_dust", "void"},
     background |-> {"white", "blue_sky", "green_grass", "sunset", "forest", "beach",
                     "mountains", "city", "space", "underwater", "volcano", "aurora",
                     "multiverse", "black_hole", "dimension_rift", "heaven"},
     special |-> {"none", "sparkles", "glow", "shadow", "aura", "particles", "energy",
                  "transcendent", "godlike", "mythical"}]

\* values the renderer knows beyond the vocabulary, and one it does not
OtherValues ==
    [body_color |-> {"white", "black", "plaid"},
     face_expression |-> {"angry", "fierce", "plaid"},
     accessory |-> {"scarf", "earring", "plaid"},
     pattern |-> {"none", "rosettes", "plaid"},
     background |-> {"savanna", "plaid"},
     special |-> {"plaid"}]

\* content hashes: none, two whose first 8 digits differ, one that shares
\* its first 8 digits with another, and one whose first 8 digits are 60 more
\* than another's
RenderHashes ==
    {<<>>, <<0, 0, 0, 0, 0, 0, 2, 10, 7, 7>>, <<0, 0, 0, 1, 2, 3, 4, 5, 7, 7>>,
     <<0, 0, 0, 0, 0, 0, 2, 10, 8, 8>>, <<0, 0, 0, 0, 0, 0, 6, 6, 7, 7>>}

\* the traits map without the trait of category c
Without(traits, c) == [x \in DOMAIN traits \ {c} |-> traits[x]]

\* records that differ from the others in what is not a trait value: a later
\* generation with another parent and count and one legendary trait,
\* and records that lack one trait
VariantDNAs ==
    {[LionDNA(7, "other", [BaseTraits EXCEPT ![c] = Trait(c, BaseTraits[c].value, "legendary")],
              4, 1000)
         EXCEPT !.dna_hash = <<0, 0, 0, 0, 0, 0, 2, 10, 7, 7>>] : c \in TraitCategory}
    \cup {[LionDNA(1, "parent", BaseTraits, 0, 1000)
             EXCEPT !.traits = Without(BaseTraits, c),
                    !.dna_hash = <<0, 0, 0, 0, 0, 0, 2, 10, 7, 7>>] : c \in TraitCategory}

\* records that draw in every layer at once
FullDNAs ==
    {[LionDNA(1, "parent",
              [c \in TraitCategory |-> Trait(c, values[c], "common")], 0, 1000)
         EXCEPT !.dna_hash = <<0, 0, 0, 0, 0, 0, 2, 10, 7, 7>>] :
        values \in {[body_color |-> "golden", face_expression |-> "cool", accessory |-> "crown",
                     pattern |-> "spots", background |-> "sunset", special |-> "sparkles"],
                    [body_color |-> "rainbow", face_expression |-> "wise", accessory |-> "halo",
                     pattern |-> "plaid", background |-> "space", special |-> "glow"]}}

\* the records rendered: the base record with one category's value
\* replaced, under each hash, the variants and the full records
RenderDNAs ==
    UNION {{[LionDNA(1, "parent", [BaseTraits EXCEPT ![c] = Trait(c, v, "common")], 0, 1000)
                EXCEPT !.dna_hash = hash] :
              v \in Vocabulary[c] \cup OtherValues[c], hash \in RenderHashes} :
           c \in TraitCategory}
    \cup VariantDNAs \cup FullDNAs

Widths == {1, 40, 60, 80, 100, 120, 400}
Heights == {1, 100, 400}

\* the argument lists: every one for a record that differs from the base
\* in its background, the defaults and one small canvas for the others
RenderArgs(d) ==
    IF TraitValue(d.traits, "background") # "white"
    THEN [op : {"svg"}, args : {<<>>} \cup {<<w>> : w \in Widths}
                                \cup {<<w, h>> : w \in Widths, h \in Heights}]
         \cup [op : {"thumbnail"}, args : {<<>>} \cup {<<w>> : w \in Widths}]
    ELSE [op : {"svg"}, args : {<<>>, <<120, 100>>}] \cup [op : {"thumbnail"}, args : {<<>>}]

InitRender ==
    /\ pc = "called"
    /\ dna \in RenderDNAs
    /\ \E call \in RenderArgs(dna) :
          /\ op = call.op
          /\ arg = [args |-> call.args]
    /\ ret = NoRet
    /\ providerLog = <<>>
    /\ fallbackLog = <<>>
    /\ calls = 1
    /\ rendered = <<>>
    /\ heap = <<>>

\* LionVisualizer.generate_svg(dna, *arg.args)
GenerateSvgCall ==
    /\ pc = "called"
    /\ op = "svg"
    /\ LET width == IF Len(arg.args) >= 1 THEN arg.args[1] ELSE DefaultWidth
           height == IF Len(arg.args) >= 2 THEN arg.args[2] ELSE DefaultHeight
       IN  ret' = GenerateSvg(dna, width, height)
    /\ pc' = "returned"
    /\ UNCHANGED <<op, dna, arg, providerLog, fallbackLog, calls, rendered, heap>>

\* LionVisualizer.generate_thumbnail(dna, *arg.args)
GenerateThumbnailCall ==
    /\ pc = "called"
    /\ op = "thumbnail"
    /\ LET size == IF Len(arg.args) >= 1 THEN arg.args[1] ELSE DefaultSize
       IN  ret' = GenerateThumbnail(dna, size)
    /\ pc' = "returned"
    /\ UNCHANGED <<op, dna, arg, providerLog, fallbackLog, calls, rendered, heap>>

NextRender == GenerateSvgCall \/ GenerateThumbnailCall

SpecRender == InitRender /\ [][NextRender]_vars

(***************************************************************************)
(* Claims about generate_svg and generate_thumbnail                        *)
(***************************************************************************)
RenderReturned == pc = "returned" /\ op \in {"svg", "thumbnail"}

\* the width and the height of the call, defaults filled in
CanvasWidth ==
    IF Len(arg.args) >= 1 THEN arg.args[1]
    ELSE IF op = "thumbnail" THEN DefaultSize ELSE DefaultWidth

CanvasHeight ==
    IF op = "thumbnail" THEN CanvasWidth
    ELSE IF Len(arg.args) >= 2 THEN arg.args[2] ELSE DefaultHeight

\* all six traits are populated
SixTraits(d) == \A c \in TraitCategory : c \in Keys(d.traits)

\* a non-empty document that starts with the <svg> element and ends with
\* </svg>
SvgDocument(doc) ==
    /\ doc # <<>>
    /\ Head(doc).form = "open"
    /\ Head(doc).el = "svg"
    /\ doc[Len(doc)] = Close("svg")
    /\ Text(Head(doc)) # ""

\* C1: for every DNA whose six traits are all populated and for every
\* positive width and height, generate_svg, and generate_thumbnail for every
\* positive size including its default, never raises and returns a
\* non-empty document that starts with the <svg> element and ends with
\* </svg>.
C1_RenderNeverRaises ==
    (RenderReturned /\ SixTraits(dna) /\ CanvasWidth > 0 /\ CanvasHeight > 0) =>
        /\ ret.kind = "return"
        /\ SvgDocument(ret.value)

\* the canvas on which the scene of the background takes a modulus by zero
ZeroModulus ==
    LET bg == TraitValue(dna.traits, "background")
    IN  \/ bg = "blue_sky" /\ CanvasWidth = 120
        \/ bg \in {"green_grass", "savanna"} /\ CanvasWidth = 40
        \/ bg = "forest" /\ CanvasWidth = 60
        \/ bg = "underwater" /\ CanvasWidth = 80
        \/ bg = "aurora" /\ CanvasHeight = 1
        \/ bg = "multiverse" /\ (CanvasWidth = 100 \/ CanvasHeight = 100)

\* what holds of a render: it raises exactly on those canvases, and
\* otherwise returns a document
RenderRaisesOnZeroModulus ==
    RenderReturned =>
        IF ZeroModulus THEN ret = Raise("ZeroDivisionError")
        ELSE ret.kind = "return" /\ SvgDocument(ret.value)

\* the thumbnail of a multiverse record at the default size was asked for
DefaultThumbnailOfMultiverse ==
    /\ RenderReturned
    /\ op = "thumbnail"
    /\ arg.args = <<>>
    /\ TraitValue(dna.traits, "background") = "multiverse"

(***************************************************************************)
(* EvolutionAgent.__init__ and _setup_provider.  The call's arguments are  *)
(* arg.provider_type and arg.api_key; arg.env is the process environment   *)
(* os.getenv reads and arg.installed the client packages that can be       *)
(* imported.  providerLog holds the provider constructors that were        *)
(* called.                                                                 *)
(***************************************************************************)
\* None, and a str, as the value of an Optional[str]
PyNone == [some |-> FALSE, s |-> ""]
PyStr(s) == [some |-> TRUE, s |-> s]

\* the truth value of an Optional[str]: None and "" are false
Truthy(v) == v.some /\ v.s # ""

\* a or b
PyOr(a, b) == IF Truthy(a) THEN a ELSE b

\* os.getenv(name) and os.getenv(name, default)
GetEnv(env, name) == env[name]
GetEnvOr(env, name, default) == IF env[name].some THEN env[name] ELSE PyStr(default)

\* ClaudeProvider(api_key): imports the client package, then builds the client
ClaudeProvider(api_key, installed) ==
    IF "anthropic" \notin installed THEN Raise("ModuleNotFoundError")
    ELSE Return([class |-> "ClaudeProvider",
                 client |-> [class |-> "Anthropic", api_key |-> api_key.s,
                             base_url |-> "default"],
                 model |-> "claude-sonnet-4-20250514"])

\* GitHubProvider(token, model)
GitHubProvider(token, model, installed) ==
    IF "openai" \notin installed THEN Raise("ModuleNotFoundError")
    ELSE Return([class |-> "GitHubProvider",
                 client |-> [class |-> "OpenAI", api_key |-> token.s,
                             base_url |-> "https://models.inference.ai.azure.com"],
                 model |-> model.s])

\* _setup_provider where a claude request without a key goes on to the
\* github branch and an unknown id selects github
SetupProviderFallsBackToGitHub(provider_type, api_key, env, installed) ==
    LET key == PyOr(api_key, GetEnv(env, "ANTHROPIC_API_KEY"))
        token == PyOr(api_key, GetEnv(env, "GITHUB_TOKEN"))
        model == GetEnvOr(env, "GITHUB_MODEL", "gpt-4o")
    IN  IF provider_type = "claude" /\ Truthy(key)
        THEN [ret |-> ClaudeProvider(key, installed),
              providerLog |-> <<[call |-> "ClaudeProvider", api_key |-> key.s]>>]
        ELSE IF ~Truthy(token)
        THEN [ret |-> Raise("ValueError"), providerLog |-> <<>>]
        ELSE [ret |-> GitHubProvider(token, model, installed),
              providerLog |-> <<[call |-> "GitHubProvider", api_key |-> token.s]>>]

\* _setup_provider(provider_type, api_key): the provider, or the error raised
SetupProvider(provider_type, api_key, env, installed) ==
    IF provider_type = "claude"
    THEN LET key == PyOr(api_key, GetEnv(env, "ANTHROPIC_API_KEY"))
         IN  IF ~Truthy(key)
             THEN [ret |-> Raise("ValueError"), providerLog |-> <<>>]
             ELSE [ret |-> ClaudeProvider(key, installed),
                   providerLog |-> <<[call |-> "ClaudeProvider", api_key |-> key.s]>>]
    ELSE IF provider_type = "github"
    THEN LET token == PyOr(api_key, GetEnv(env, "GITHUB_TOKEN"))
         IN  IF ~Truthy(token)
             THEN [ret |-> Raise("ValueError"), providerLog |-> <<>>]
             ELSE LET model == GetEnvOr(env, "GITHUB_MODEL", "gpt-4o")
                  IN  [ret |-> GitHubProvider(token, model, installed),
                       providerLog |-> <<[call |-> "GitHubProvider", api_key |-> token.s]>>]
    ELSE [ret |-> Raise("ValueError"), providerLog |-> <<>>]

\* the provider ids a caller may pass: the two known ones and others
ProviderTypes == {"claude", "github", "Claude", "openai", ""}

\* the credentials a caller or the environment may hold
Credentials == {PyNone, PyStr(""), PyStr("secret")}

EnvNames == {"ANTHROPIC_API_KEY", "GITHUB_TOKEN", "GITHUB_MODEL"}

Environments ==
    {e \in [EnvNames -> {PyNone, PyStr(""), PyStr("secret"), PyStr("gpt-4o-mini")}] :
        /\ e["ANTHROPIC_API_KEY"] \in Credentials
        /\ e["GITHUB_TOKEN"] \in Credentials
        /\ e["GITHUB_MODEL"] \in {PyNone, PyStr(""), PyStr("gpt-4o-mini")}}

InitSetup ==
    /\ pc = "called"
    /\ op = "setup"
    /\ dna \in {CHOOSE d \in InitialDNAs : TRUE}
    /\ arg \in {[provider_type |-> t, api_key |-> k, env |-> e, installed |-> i] :
                  t \in ProviderTypes, k \in Credentials, e \in Environments,
                  i \in SUBSET {"anthropic", "openai"}}
    /\ ret = NoRet
    /\ providerLog = <<>>
    /\ fallbackLog = <<>>
    /\ calls = 1
    /\ rendered = <<>>
    /\ heap = <<>>

\* EvolutionAgent(arg.provider_type, arg.api_key)
EvolutionAgentInit ==
    /\ pc = "called"
    /\ op = "setup"
    /\ LET outcome == SetupProvider(arg.provider_type, arg.api_key, arg.env, arg.installed)
       IN  /\ ret' = outcome.ret
           /\ providerLog' = outcome.providerLog
    /\ pc' = "returned"
    /\ UNCHANGED <<op, dna, arg, fallbackLog, calls, rendered, heap>>

NextSetup == EvolutionAgentInit

SpecSetup == InitSetup /\ [][NextSetup]_vars

SetupReturned == pc = "returned" /\ op = "setup"

\* the id is neither of the two known ones
UnknownProviderId == arg.provider_type \notin {"claude", "github"}

\* a known id, and neither the argument nor the environment variable of that
\* backend holds a credential
NoCredential ==
    /\ ~Truthy(arg.api_key)
    /\ \/ arg.provider_type = "claude" /\ ~Truthy(arg.env["ANTHROPIC_API_KEY"])
       \/ arg.provider_type = "github" /\ ~Truthy(arg.env["GITHUB_TOKEN"])

\* C11: constructing an EvolutionAgent with a provider id other than
\* "claude" or "github", or with a known id when no credential is available
\* from the argument or the environment, raises a configuration error before
\* any provider client is constructed, and selects no other backend.
C11_SetupFailsFast ==
    (SetupReturned /\ (UnknownProviderId \/ NoCredential)) =>
        /\ ret = Raise("ValueError")
        /\ providerLog = <<>>

\* C11 witness: claude was asked for with no key anywhere, while the
\* environment holds the credential of the other backend and its package
C11_Witness ==
    /\ SetupReturned
    /\ arg.provider_type = "claude"
    /\ NoCredential
    /\ Truthy(arg.env["GITHUB_TOKEN"])
    /\ "openai" \in arg.installed
    /\ ret.kind = "raise"

(***************************************************************************)
(* Further claims about _apply_evolution, under SpecApply: a run is a      *)
(* sequence of calls, each on the record the previous one returned.        *)
(***************************************************************************)
\* the map has exactly the six category keys, one Trait each, and every
\* Trait's category is the key it is stored under
TotalOverCategories(traits) ==
    /\ DOMAIN traits = {"body_color", "face_expression", "accessory", "pattern",
                        "background", "special"}
    /\ \A c \in DOMAIN traits :
          /\ DOMAIN traits[c] = {"category", "value", "rarity"}
          /\ traits[c].category = c

\* C12: starting from a DNA whose traits map is total over the six
\* categories, after any sequence of _apply_evolution calls the traits map
\* still has exactly the six category keys, one Trait each, and every stored
\* Trait's category field equals the key it is stored under.
C12_TraitsStayTotal ==
    op = "apply" =>
        /\ TotalOverCategories(dna.traits)
        /\ ApplyReturned => TotalOverCategories(ret.value.traits)

\* C12 witness: a later call of a sequence, on a record an earlier call
\* changed, was given a change of a category that does not exist
C12_Witness ==
    /\ ApplyReturned
    /\ calls >= 2
    /\ dna.mutation_count > 0
    /\ dna.traits["body_color"].value = "neon"
    /\ \E i \in 1..Len(GivenChanges) :
          /\ GivenChanges[i].t = "obj"
          /\ "category" \in Keys(GivenChanges[i].o)
          /\ GivenChanges[i].o["category"] = JStr("tail")

\* the entries of the changes list a call was given: none when the call was
\* given no list
ChangesGiven == EntriesOf(ChangesOf(arg.decision))

\* C13: along any sequence of _apply_evolution calls, each feeding on the
\* previous result, mutation_count never decreases, and one call raises it
\* by at most the length of that call's changes list.
C13_MutationCountNeverDecreases ==
    [][(op = "apply" /\ op' = "apply") =>
          /\ dna'.mutation_count >= dna.mutation_count
          /\ (pc = "called" /\ ret'.kind = "return") =>
                /\ ret'.value.mutation_count >= dna.mutation_count
                /\ ret'.value.mutation_count <= dna.mutation_count + Len(ChangesGiven)]_vars

\* C13 witness: the second call of a sequence raised the count that the
\* first call had raised from zero
C13_Witness ==
    /\ ApplyReturned
    /\ calls >= 2
    /\ dna.mutation_count \in {1, 2}
    /\ ret.value.mutation_count = dna.mutation_count + 1

\* the positions of the entries that were applied to category c
AppliedTo(c) ==
    {i \in 1..Len(ChangesGiven) :
        Resolves(ChangesGiven[i]) /\ ChangesGiven[i].o["category"].s = c}

\* C20: _apply_evolution changes nothing but the named traits and the
\* counter: the result's generation, parent reference and birth timestamp
\* equal the input's, and every category not named by an applied change
\* keeps the input's value and rarity.
C20_ApplyFrame ==
    ApplyReturned =>
        /\ ret.value.generation = dna.generation
        /\ ret.value.parent_id = dna.parent_id
        /\ ret.value.birth_timestamp = dna.birth_timestamp
        /\ \A c \in TraitCategory :
              AppliedTo(c) = {} =>
                  /\ ret.value.traits[c].value = dna.traits[c].value
                  /\ ret.value.traits[c].rarity = dna.traits[c].rarity

\* C20 witness: a record of a later generation, with a parent and a rare
\* pattern, had its body colour changed and nothing else
C20_Witness ==
    /\ ApplyReturned
    /\ dna.generation = 2
    /\ dna.parent_id = "parent"
    /\ dna.traits["pattern"].rarity = "rare"
    /\ AppliedTo("body_color") # {}
    /\ AppliedTo("pattern") = {}
    /\ ret.value.traits["body_color"] # dna.traits["body_color"]

\* most seed derivations of one run
MaxRenders == 3

\* the width and the height a generate_svg call with these arguments has
WidthOf(args) == IF Len(args) >= 1 THEN args[1] ELSE DefaultWidth
HeightOf(args) == IF Len(args) >= 2 THEN args[2] ELSE DefaultHeight

(***************************************************************************)
(* Claims that compare the render of a record with the render of another   *)
(* record at the same canvas, under SpecRender.                            *)
(***************************************************************************)
\* the outcome of the call o(d, *args)
RenderOutcome(o, d, args) ==
    IF o = "thumbnail"
    THEN GenerateThumbnail(d, IF Len(args) >= 1 THEN args[1] ELSE DefaultSize)
    ELSE GenerateSvg(d, WidthOf(args), HeightOf(args))

\* the record with another content hash
WithHash(d, h) == [d EXCEPT !.dna_hash = h]

\* the element structure of a document: the kinds of its elements in order
Structure(outcome) ==
    IF outcome.kind = "return"
    THEN [i \in 1..Len(outcome.value) |-> <<outcome.value[i].form, outcome.value[i].el>>]
    ELSE <<outcome.exc>>

\* C15: for two records with identical trait values and different seeds,
\* rendered at the same dimensions, the two documents have the same number
\* of elements of the same kinds in the same order, for every background,
\* pattern and special value.
C15_SameStructureAcrossSeeds ==
    RenderReturned =>
        \A h \in RenderHashes :
            Seed(h) # Seed(dna.dna_hash) =>
                Structure(RenderOutcome(op, WithHash(dna, h), arg.args)) = Structure(ret)

\* what holds of the structure: it is the same across seeds for every
\* background but city
SameStructureButCity ==
    (RenderReturned /\ TraitValue(dna.traits, "background") # "city") =>
        \A h \in RenderHashes :
            Structure(RenderOutcome(op, WithHash(dna, h), arg.args)) = Structure(ret)

\* a city record was rendered under the seed 42
CityRendered ==
    /\ RenderReturned
    /\ TraitValue(dna.traits, "background") = "city"
    /\ Seed(dna.dna_hash) = 42
    /\ ret.kind = "return"

\* C16: two records with identical trait values that differ only in content
\* hash render, at the same dimensions, to documents that are not identical.
C16_DifferentHashDifferentDocument ==
    (RenderReturned /\ ret.kind = "return") =>
        \A h \in RenderHashes :
            h # dna.dna_hash => RenderOutcome(op, WithHash(dna, h), arg.args) # ret

\* what holds of the seed: two renders differ whenever the seeds of the two
\* records differ modulo 60
DifferentSeedModSixtyDifferentDocument ==
    (RenderReturned /\ ret.kind = "return") =>
        \A h \in RenderHashes :
            Seed(h) % 60 # Seed(dna.dna_hash) % 60 =>
                RenderOutcome(op, WithHash(dna, h), arg.args) # ret

\* the base record was rendered under a hash that shares its first 8 digits
\* with another hash
SharedPrefixRendered ==
    /\ RenderReturned
    /\ dna.dna_hash = <<0, 0, 0, 0, 0, 0, 2, 10, 8, 8>>
    /\ dna.traits = BaseTraits
    /\ ret.kind = "return"

\* the record with every rarity set to r and with another generation,
\* parent and mutation count
Recast(d, r) ==
    [d EXCEPT !.traits = [c \in DOMAIN d.traits |-> [d.traits[c] EXCEPT !.rarity = r]],
              !.generation = d.generation + 1,
              !.parent_id = "recast",
              !.mutation_count = d.mutation_count + 1]

\* C17: rendering ignores rarity: two DNAs with the same content hash and
\* the same six trait values, differing only in trait rarities or in
\* generation, parent or mutation count, render to identical documents at
\* the same dimensions.
C17_RenderIgnoresRarity ==
    RenderReturned =>
        \A r \in {"common", "legendary"} :
            RenderOutcome(op, Recast(dna, r), arg.args) = ret

\* C17 witness: a record of a later generation with a legendary body colour
\* was rendered
C17_Witness ==
    /\ RenderReturned
    /\ dna.generation = 7
    /\ dna.mutation_count = 4
    /\ "body_color" \in DOMAIN dna.traits
    /\ dna.traits["body_color"].rarity = "legendary"
    /\ ret.kind = "return"

\* the ids the layers refer to (133-147, 286, 305, 320, 668)
UrlIds ==
    {"bg-sky", "bg-grass", "bg-sunset", "bg-forest", "bg-beach", "bg-space",
     "bg-underwater", "bg-volcano", "bg-aurora-bg", "bg-multiverse", "bg-black-hole",
     "bg-dimension", "bg-heaven", "bg-mountains", "bg-city", "rainbow-mane", "shadow",
     "body-clip", "glow"}

UrlRef(id) == "url(#" \o id \o ")"

\* the lines of the <defs> block of a document
DefsLines(doc) ==
    LET opens == {i \in 1..Len(doc) : doc[i] = Open("defs", <<>>)}
        closes == {i \in 1..Len(doc) : doc[i] = Close("defs")}
    IN  UNION {{i \in (x + 1)..(y - 1) : TRUE} : x \in opens, y \in closes}

\* the values of the attributes of the given lines whose name is in names
AttrValues(doc, lines, names) ==
    UNION {{doc[i].attrs[k][2] :
               k \in {j \in 1..Len(doc[i].attrs) : doc[i].attrs[j][1] \in names}} :
           i \in lines}

\* the names of the attributes of a document
AttrNames(doc) ==
    UNION {{doc[i].attrs[k][1] : k \in 1..Len(doc[i].attrs)} : i \in 1..Len(doc)}

\* the ids the <defs> block defines
DefinedIds(doc) == AttrValues(doc, DefsLines(doc), {"id"})

\* the ids the elements of a document refer to, in any attribute
ReferencedIds(doc) ==
    LET values == AttrValues(doc, 1..Len(doc), AttrNames(doc))
    IN  {id \in UrlIds : UrlRef(id) \in values}

\* C18: the rendered document is self-contained: every url(#id) reference
\* emitted by any layer names an id that is defined in the <defs> block of
\* that same document.
C18_ReferencesDefined ==
    (RenderReturned /\ ret.kind = "return") =>
        ReferencedIds(ret.value) \subseteq DefinedIds(ret.value)

\* C18 witness: a document refers to the shadow filter, to the glow filter
\* and to the gradient of its background
C18_Witness ==
    /\ RenderReturned
    /\ ret.kind = "return"
    /\ \/ {"shadow", "glow"} \subseteq ReferencedIds(ret.value)
       \/ {"shadow", "bg-city"} \subseteq ReferencedIds(ret.value)
    /\ "body-clip" \in DefinedIds(ret.value)

\* the values that a branch or a table of the renderer names, per category
Recognised ==
    [body_color |-> DOMAIN BODY_COLORS,
     face_expression |-> {"sleepy", "surprised", "winking", "angry", "cool", "zen",
                          "enlightened", "cosmic", "divine", "laughing", "legendary",
                          "fierce", "excited", "mischievous", "wise", "happy"},
     accessory |-> {"none", "crown", "golden_crown", "sunglasses", "monocle", "bow",
                    "simple_hat", "bandana", "headphones", "scarf", "earring",
                    "laser_eyes", "halo", "horns", "wizard_hat", "diamond_chain",
                    "jetpack", "wings"},
     pattern |-> {"solid", "none", "spots", "stripes", "gradient", "swirls", "stars",
                  "hearts", "diamonds", "fractals", "nebula", "lightning", "flames",
                  "aurora", "quantum", "cosmic_dust", "void"},
     background |-> DOMAIN SimpleFills \cup {"savanna"},
     special |-> {"none", "sparkles", "glow", "shadow", "aura", "particles", "energy",
                  "transcendent", "godlike", "mythical"}]

\* the categories in which the record holds a value the renderer does not
\* recognise
Unrecognised(d) == {c \in DOMAIN d.traits : d.traits[c].value \notin Recognised[c]}

\* the record without its trait of category c
Lacking(d, c) == [d EXCEPT !.traits = Without(d.traits, c)]

\* C19 as claimed: in every category, a trait value that the renderer does
\* not recognise renders exactly as when that category's trait is absent.
C19_UnrecognisedRendersAsAbsent ==
    RenderReturned =>
        \A c \in Unrecognised(dna) :
            ret = RenderOutcome(op, Lacking(dna, c), arg.args)

\* C19 as amended: in every category but pattern, a value the renderer does
\* not recognise renders exactly as when that category's trait is absent; a
\* pattern it does not recognise renders the fallback overlay, the same for
\* every such value, which the document of an absent pattern does not have.
C19_UnrecognisedRendersAsAbsentButPattern ==
    RenderReturned =>
        \A c \in Unrecognised(dna) :
            IF c # "pattern"
            THEN ret = RenderOutcome(op, Lacking(dna, c), arg.args)
            ELSE /\ ret = RenderOutcome(op,
                              [dna EXCEPT !.traits["pattern"].value = "unrecognised"],
                              arg.args)
                 /\ ret.kind = "return" =>
                       /\ ret # RenderOutcome(op, Lacking(dna, c), arg.args)
                       /\ Len(ret.value) =
                             Len(RenderOutcome(op, Lacking(dna, c), arg.args).value) + 9

\* C19 witness: a record with an expression the renderer has no branch for
\* was rendered
C19_Witness ==
    /\ RenderReturned
    /\ "face_expression" \in Unrecognised(dna)
    /\ dna.traits["face_expression"].value = "plaid"
    /\ ret.kind = "return"

(***************************************************************************)
(* Claims about the course of one evolve_with_ai call, under SpecAgent.    *)
(***************************************************************************)
\* the completion requests the call made on the provider
CompletionRequests ==
    {i \in 1..Len(providerLog) : providerLog[i].call = "generate_response"}

\* the provider call, the parsing and the application all succeed
AIPathSucceeds ==
    /\ arg.provider.reply.kind = "text"
    /\ ParseAIResponse(arg.provider.reply.text).kind = "return"
    /\ ApplyEvolution(dna, ParseAIResponse(arg.provider.reply.text).value).kind = "return"

\* the call returned the Applier's output for the parsed reply and never
\* invoked the fallback
ReturnedApplierOutput ==
    /\ ret = ApplyEvolution(dna, ParseAIResponse(arg.provider.reply.text).value)
    /\ fallbackLog = <<>>

\* C21: each evolve_with_ai call makes exactly one provider completion
\* request and ends in exactly one of two outcomes: if the provider call,
\* parsing and application all succeed it returns the Applier's output and
\* the fallback is never invoked; otherwise it returns the fallback's output.
C21_OneRequestTwoOutcomes ==
    EvolveReturned =>
        /\ Cardinality(CompletionRequests) = 1
        /\ IF AIPathSucceeds THEN ReturnedApplierOutput ELSE FellBack

\* C21, where it holds: a provider whose name() returns
OneRequestTwoOutcomesWhenNamed ==
    (EvolveReturned /\ ~arg.provider.nameRaises) =>
        /\ Cardinality(CompletionRequests) = 1
        /\ providerLog[2] = GenerateCall(CreateEvolutionPrompt(CurrentTraits(dna),
                                             arg.days_passed, dna.generation), 1024)
        /\ IF AIPathSucceeds THEN ReturnedApplierOutput ELSE FellBack

\* C21 witness: a call on a provider whose name() raises and whose generate_response
\* would have answered with a change-set
C21_Witness ==
    /\ EvolveReturned
    /\ arg.provider.nameRaises
    /\ AIPathSucceeds
    /\ ret.kind = "raise"

(***************************************************************************)
(* The seed derivation of generate_svg taken alone: the caller derives the *)
(* seed of a record, then of another record.                                *)
(***************************************************************************)
\* content hashes: none, shorter than 8 characters, of 8 characters, and
\* longer.  The largest prefix is 7fffffff: the integers of TLC end at
\* 2^31 - 1, so a hash whose first character is 8 or more has a seed it
\* cannot hold.
SeedHashes ==
    {<<>>, <<15>>, <<1, 0>>, <<15, 15, 15, 15, 15, 15, 15>>,
     <<7, 15, 15, 15, 15, 15, 15, 15>>, <<7, 15, 15, 15, 15, 15, 15, 15, 15, 15>>,
     <<0, 0, 0, 0, 0, 0, 0, 0, 15, 15>>, <<0, 0, 0, 0, 3, 0, 3, 9, 0, 1>>,
     <<0, 0, 0, 0, 0, 0, 2, 10, 7, 7>>, <<0, 0, 0, 0, 0, 0, 2, 10, 8, 8>>}

\* two records for each hash
SeedDNAs ==
    {[d EXCEPT !.dna_hash = h] :
        d \in {LionDNA(1, "parent", BaseTraits, 0, 1000),
               LionDNA(7, "other", [BaseTraits EXCEPT !["pattern"] = Trait("pattern", "spots", "rare")],
                       4, 2000)},
        h \in SeedHashes}

InitSeed ==
    /\ pc = "called"
    /\ op = "seed"
    /\ dna \in SeedDNAs
    /\ arg = [args |-> <<>>]
    /\ ret = NoRet
    /\ providerLog = <<>>
    /\ fallbackLog = <<>>
    /\ calls = 1
    /\ rendered = <<>>
    /\ heap = <<>>

\* seed = int(dna.dna_hash[:8], 16) if dna.dna_hash else 12345
DeriveSeed ==
    /\ pc = "called"
    /\ op = "seed"
    /\ ret' = Return(Seed(dna.dna_hash))
    /\ pc' = "returned"
    /\ UNCHANGED <<op, dna, arg, providerLog, fallbackLog, calls, rendered, heap>>

\* the caller keeps the seed and derives the seed of the next record
SeedNext ==
    /\ pc = "returned"
    /\ op = "seed"
    /\ calls < MaxRenders
    /\ rendered' = Append(rendered, [op |-> op, dna |-> dna, args |-> arg.args, ret |-> ret])
    /\ dna' \in SeedDNAs
    /\ ret' = NoRet
    /\ pc' = "called"
    /\ calls' = calls + 1
    /\ UNCHANGED <<op, arg, providerLog, fallbackLog, heap>>

NextSeed == DeriveSeed \/ SeedNext

SpecSeed == InitSeed /\ [][NextSeed]_vars

SeedReturned == pc = "returned" /\ op = "seed"

\* the first 8 characters of a hash, or all of them when there are fewer
Prefix8(h) == [i \in 1..(IF Len(h) < 8 THEN Len(h) ELSE 8) |-> h[i]]

RECURSIVE PlaceValue(_, _)
\* the sum of digits[i] * 16^(Len(digits) - i) over the first n digits
PlaceValue(digits, n) ==
    IF n = 0 THEN 0
    ELSE digits[n] * 16 ^ (Len(digits) - n) + PlaceValue(digits, n - 1)

\* C23: the render seed is the base-16 value of the first 8 characters of
\* the content hash, hence 0 <= seed < 2^32, and is the constant 12345 when
\* the hash is absent or empty; two records with the same content hash
\* always get the same seed.
C23_SeedFromHashPrefix ==
    SeedReturned =>
        /\ ret.kind = "return"
        /\ dna.dna_hash = <<>> => ret.value = 12345
        /\ dna.dna_hash # <<>> =>
              ret.value = PlaceValue(Prefix8(dna.dna_hash), Len(Prefix8(dna.dna_hash)))
        \* seed < 2^32, as seed div 2^16 < 2^16
        /\ 0 <= ret.value /\ ret.value \div 65536 < 65536
        /\ \A i \in 1..Len(rendered) :
              rendered[i].dna.dna_hash = dna.dna_hash => rendered[i].ret = ret

\* C23 witness: the seed of a hash of ten characters whose first eight are
\* 7fffffff was derived, after the seed of another record with that hash
C23_Witness ==
    /\ SeedReturned
    /\ dna.dna_hash = <<7, 15, 15, 15, 15, 15, 15, 15, 15, 15>>
    /\ ret = Return(2147483647)
    /\ Len(rendered) >= 1
    /\ rendered[1].dna # dna
    /\ rendered[1].dna.dna_hash = dna.dna_hash

(***************************************************************************)
(* Claims about what generate_evolution_story compares, under SpecAgent.   *)
(***************************************************************************)
\* the categories whose rarity differs between the two records of a story
\* call
RarityDiffering ==
    {c \in TraitCategory : dna.traits[c].rarity # arg.new_dna.traits[c].rarity}

\* C26: generate_evolution_story compares trait values only: when old and
\* new DNA differ in one or more rarities but in no trait value, it returns
\* the fixed no-changes sentence and makes no provider call.
C26_RarityChangeIsNoChange ==
    (StoryReturned /\ RarityDiffering # {}
        /\ \A c \in TraitCategory : dna.traits[c].value = arg.new_dna.traits[c].value) =>
        /\ ret = Return("Your lion rested today. No visible changes.")
        /\ Len(providerLog) = 0

\* C26 witness: the story of a record whose body colour went from common to
\* rare, asked of a provider that answers
C26_Witness ==
    /\ StoryReturned
    /\ RarityDiffering = {"body_color"}
    /\ dna.traits["body_color"].rarity = "common"
    /\ arg.new_dna.traits["body_color"].rarity = "rare"
    /\ arg.new_dna.traits["body_color"].value = dna.traits["body_color"].value
    /\ arg.new_dna.mutation_count = dna.mutation_count + 1
    /\ arg.provider.reply.kind = "text"
    /\ ret.kind = "return"

(***************************************************************************)
(* Claims about the flow of trait values into the document, under          *)
(* SpecRender.                                                             *)
(***************************************************************************)
\* values no branch or table of the renderer names, two of them markup
ForeignValues ==
    {"plaid", "zigzag", "<script>alert(1)</script>", "\"/><circle r=\"9\"/>"}

\* the record with the value of category c replaced
WithValue(d, c, v) == [d EXCEPT !.traits[c].value = v]

\* C27: no trait value text flows into the rendered document: two DNAs that
\* differ only by carrying two different unrecognised values in the same
\* category render to identical documents.
C27_NoValueTextInDocument ==
    RenderReturned =>
        \A c \in Unrecognised(dna) :
            \A v \in ForeignValues :
                /\ v \notin Recognised[c]
                /\ RenderOutcome(op, WithValue(dna, c, v), arg.args) = ret

\* C27 witness: a record with an accessory the renderer does not recognise
\* was rendered, and markup in its place renders the same document
C27_Witness ==
    /\ RenderReturned
    /\ Unrecognised(dna) = {"accessory"}
    /\ dna.traits["accessory"].value = "plaid"
    /\ ret.kind = "return"
    /\ RenderOutcome(op, WithValue(dna, "accessory", "<script>alert(1)</script>"), arg.args) = ret

(***************************************************************************)
(* Claims about the order of the layers, under SpecRender.  The layers of  *)
(* a document are found by the elements every document has: the <defs>     *)
(* block, the background rectangle, the head, the nose and the whiskers.   *)
(***************************************************************************)
HasAttr(line, name, value) == \E k \in 1..Len(line.attrs) : line.attrs[k] = <<name, value>>

AttrNamesOf(line) == [k \in 1..Len(line.attrs) |-> line.attrs[k][1]]

\* where the <defs> block ends
DefsCloseAt(doc) == {i \in 1..Len(doc) : doc[i] = Close("defs")}

\* where the head is: the circle of radius 90 with the shadow
HeadAt(doc) ==
    {i \in 1..Len(doc) :
        /\ doc[i].el = "circle"
        /\ HasAttr(doc[i], "r", "90")
        /\ HasAttr(doc[i], "filter", "url(#shadow)")}

\* where the pattern overlay opens: the group clipped to the head
OverlayAt(doc) ==
    {i \in 1..Len(doc) :
        /\ doc[i].form = "open"
        /\ doc[i].el = "g"
        /\ HasAttr(doc[i], "clip-path", "url(#body-clip)")}

\* where the nose is
NoseAt(doc) ==
    {i \in 1..Len(doc) :
        /\ doc[i].el = "path"
        /\ AttrNamesOf(doc[i]) = <<"d", "fill">>
        /\ HasAttr(doc[i], "fill", "#3E2723")}

\* where the whiskers are
WhiskersAt(doc) ==
    {i \in 1..Len(doc) :
        /\ doc[i].el = "line"
        /\ HasAttr(doc[i], "stroke", "#3E2723")
        /\ HasAttr(doc[i], "stroke-width", "1")
        /\ HasAttr(doc[i], "opacity", "0.3")}

\* the only element of a set of one
The(S) == CHOOSE x \in S : TRUE

\* the lines of a document after its whiskers and before its last line: the
\* accessory and the special effect
AfterFace(doc) ==
    LET last == CHOOSE i \in WhiskersAt(doc) : \A j \in WhiskersAt(doc) : j <= i
    IN  SubSeq(doc, last + 1, Len(doc) - 1)

\* whether the accessory, the special effect of a record draw anything
AccessoryDraws(d) == TraitValue(d.traits, "accessory") \in Recognised.accessory \ {"none"}
SpecialDraws(d) == TraitValue(d.traits, "special") \in Recognised.special \ {"none"}

\* the accessory lines of a record that also draws a special effect: what
\* follows the face when the special effect is taken away, less its slot
AccessoryLines(o, d, args) ==
    LET tail == AfterFace(RenderOutcome(o, WithValue(d, "special", "none"), args).value)
    IN  SubSeq(tail, 1, Len(tail) - 1)

\* the special effect lines of a record that also draws an accessory
SpecialLines(o, d, args) ==
    LET tail == AfterFace(RenderOutcome(o, WithValue(d, "accessory", "none"), args).value)
    IN  SubSeq(tail, 2, Len(tail))

\* C24: for every DNA, the document's layers appear in one fixed order: svg
\* opening, definitions, background, body with mane and pattern overlay,
\* face, accessory, special effect, svg closing; no trait value reorders or
\* omits a layer slot, and the pattern overlay always sits inside the body
\* layer after the head.
C24_LayersInFixedOrder ==
    (RenderReturned /\ ret.kind = "return") =>
        LET doc == ret.value
            n == Len(doc)
            dc == The(DefsCloseAt(doc))
            hd == The(HeadAt(doc))
            ns == The(NoseAt(doc))
            tail == AfterFace(doc)
            plain == TraitValue(dna.traits, "pattern") \in {"solid", "none"}
        IN  /\ doc[1].form = "open" /\ doc[1].el = "svg"
            /\ doc[n] = Close("svg")
            \* definitions
            /\ doc[2] = Open("defs", <<>>)
            /\ Cardinality(DefsCloseAt(doc)) = 1
            \* background: its rectangle comes first
            /\ doc[dc + 1].el = "rect"
            /\ AttrNamesOf(doc[dc + 1]) = <<"width", "height", "fill">>
            /\ HasAttr(doc[dc + 1], "width", N(CanvasWidth))
            \* body: 16 mane petals, the ring and the ears, the head, the
            \* cheeks, the overlay
            /\ Cardinality(HeadAt(doc)) = 1
            /\ dc + 1 < hd - 21
            /\ \A i \in (hd - 21)..(hd - 6) :
                  /\ doc[i].el = "ellipse"
                  /\ HasAttr(doc[i], "opacity", "0.75")
                  /\ \E k \in 1..Len(doc[i].attrs) : doc[i].attrs[k][1] = "transform"
            /\ OverlayAt(doc) = IF plain THEN {} ELSE {hd + 2}
            /\ plain <=> doc[hd + 2] = BlankLine
            \* face
            /\ Cardinality(NoseAt(doc)) = 1
            /\ hd + 2 < ns
            /\ \A i \in (hd + 3)..ns : doc[i] # Close("g") \/ ~plain
            /\ \E i \in (hd + 2)..ns : plain \/ doc[i] = Close("g")
            /\ WhiskersAt(doc) = (n - Len(tail) - 4)..(n - Len(tail) - 1)
            /\ ns < n - Len(tail) - 4
            \* accessory, then special effect: each has its slot
            /\ Len(tail) >= 2
            /\ AccessoryDraws(dna) <=> tail[1] # BlankLine
            /\ SpecialDraws(dna) <=> tail[Len(tail)] # BlankLine
            /\ (~AccessoryDraws(dna) /\ ~SpecialDraws(dna)) => tail = <<BlankLine, BlankLine>>
            /\ (AccessoryDraws(dna) /\ SpecialDraws(dna)) =>
                  tail = AccessoryLines(op, dna, arg.args) \o SpecialLines(op, dna, arg.args)

\* C24 witness: a record that draws a pattern, an accessory and a special
\* effect was rendered
C24_Witness ==
    /\ RenderReturned
    /\ ret.kind = "return"
    /\ OverlayAt(ret.value) # {}
    /\ AccessoryDraws(dna)
    /\ SpecialDraws(dna)
    /\ TraitValue(dna.traits, "background") = "sunset"

(***************************************************************************)
(* Claims about the visibility of trait values, under SpecRender.          *)
(***************************************************************************)
\* the categories of a record that hold a value of the prompt's vocabulary
\* and in which it may be compared: the one in which it differs from the
\* base record, or every one when it differs in none
Compared(d) ==
    LET varied == {c \in DOMAIN d.traits : d.traits[c].value # BaseTraits[c].value}
    IN  {c \in (IF varied = {} THEN DOMAIN d.traits ELSE varied) :
            d.traits[c].value \in Vocabulary[c]}

\* C25: every DNA trait produces visible SVG differences: for each category,
\* two DNAs that differ only in that category's value, both values taken
\* from the vocabulary the evolution prompt offers for the category, render
\* to different documents at the same dimensions.
C25_EveryValueVisible ==
    (RenderReturned /\ ret.kind = "return") =>
        \A c \in Compared(dna) :
            \A v \in Vocabulary[c] \ {dna.traits[c].value} :
                RenderOutcome(op, WithValue(dna, c, v), arg.args) # ret

\* the pairs of expressions of the vocabulary that are drawn alike
AlikeExpressions == {{"neutral", "curious"}, {"enlightened", "divine"}}

\* C25, where it holds: every pair of values of the vocabulary but two pairs
\* of expressions
EveryValueVisibleButTwoPairs ==
    (RenderReturned /\ ret.kind = "return") =>
        \A c \in Compared(dna) :
            \A v \in Vocabulary[c] \ {dna.traits[c].value} :
                (RenderOutcome(op, WithValue(dna, c, v), arg.args) = ret)
                    <=> (c = "face_expression" /\ {v, dna.traits[c].value} \in AlikeExpressions)

\* C25 witness: a record with the expression neutral was rendered, and the
\* expression curious gives the same document
C25_Witness ==
    /\ RenderReturned
    /\ ret.kind = "return"
    /\ "face_expression" \in Compared(dna)
    /\ dna.traits["face_expression"].value = "neutral"
    /\ RenderOutcome(op, WithValue(dna, "face_expression", "curious"), arg.args) = ret

(***************************************************************************)
(* Object identity.  In the runs of this section a Trait is an object on   *)
(* the heap, a sequence of Trait values; a reference is a place in it, and *)
(* the traits map of a record holds a reference per category.  An          *)
(* operation returns the heap it leaves with its outcome.                  *)
(***************************************************************************)
\* the record of values that a record of references stands for
Deref(h, d) == [d EXCEPT !.traits = [c \in DOMAIN d.traits |-> h[d.traits[c]]]]

\* the Trait objects a record holds
Refs(d) == {d.traits[c] : c \in DOMAIN d.traits}

RECURSIVE StoreTraits(_, _, _, _)
\* a new object for each trait of values, in the order of the categories
\* CategoryOrder[i..]
StoreTraits(h, values, stored, i) ==
    IF i > Len(CategoryOrder) THEN [heap |-> h, traits |-> stored]
    ELSE LET cat == CategoryOrder[i]
         IN  IF cat \in Keys(values)
             THEN StoreTraits(Append(h, values[cat]), values,
                              SetItem(stored, cat, Len(h) + 1), i + 1)
             ELSE StoreTraits(h, values, stored, i + 1)

\* {cat: trait.model_copy() for cat, trait in dna.traits.items()}
CopyTraits(h, traits) ==
    StoreTraits(h, [c \in DOMAIN traits |-> h[traits[c]]], <<>>, 1)

\* LionDNA(...) on a traits map of references
LionDNAOf(h, generation, parent_id, traits, mutation_count, birth_timestamp) ==
    [LionDNA(generation, parent_id, [c \in DOMAIN traits |-> h[traits[c]]],
             mutation_count, birth_timestamp)
        EXCEPT !.traits = traits]

RECURSIVE ApplyChangesOnHeap(_, _, _, _)
\* the for loop: each change that applies makes a new Trait object
ApplyChangesOnHeap(h, new_traits, mutations, entries) ==
    IF entries = <<>> THEN [heap |-> h, traits |-> new_traits, mutations |-> mutations]
    ELSE LET change == Head(entries)
         IN  IF ChangeApplies(change)
             THEN LET category == change.o["category"].s
                  IN  ApplyChangesOnHeap(
                          Append(h, Trait(category, change.o["new_value"].s,
                                          change.o["new_rarity"].s)),
                          SetItem(new_traits, category, Len(h) + 1),
                          mutations + 1, Tail(entries))
             ELSE ApplyChangesOnHeap(h, new_traits, mutations, Tail(entries))

\* a mutant: the traits map is copied as dna.traits.copy() does, which
\* copies the map and not the Trait objects
ApplyEvolutionOnHeapShallow(h, d, decision) ==
    IF ~Iterable(ChangesOf(decision)) THEN [heap |-> h, ret |-> Raise("TypeError")]
    ELSE LET done == ApplyChangesOnHeap(h, d.traits, 0, EntriesOf(ChangesOf(decision)))
         IN  [heap |-> done.heap,
              ret |-> Return(LionDNAOf(done.heap, d.generation, d.parent_id, done.traits,
                                       d.mutation_count + done.mutations,
                                       d.birth_timestamp))]

\* _apply_evolution(dna, decision) on the heap
ApplyEvolutionOnHeap(h, d, decision) ==
    LET copied == CopyTraits(h, d.traits)
    IN  IF ~Iterable(ChangesOf(decision))
        THEN [heap |-> copied.heap, ret |-> Raise("TypeError")]
        ELSE LET done == ApplyChangesOnHeap(copied.heap, copied.traits, 0,
                                            EntriesOf(ChangesOf(decision)))
             IN  [heap |-> done.heap,
                  ret |-> Return(LionDNAOf(done.heap, d.generation, d.parent_id,
                                           done.traits,
                                           d.mutation_count + done.mutations,
                                           d.birth_timestamp))]

\* GeneticsEngine.evolve(dna, evolution_strength) on the heap: a new record
\* with Trait objects of its own
GeneticsEvolveOnHeap(h, d, strengthTenths) ==
    {LET placed == StoreTraits(h, e.traits, <<>>, 1)
     IN  [heap |-> placed.heap, ret |-> [e EXCEPT !.traits = placed.traits]] :
        e \in GeneticsEvolve(Deref(h, d), strengthTenths)}

\* evolve_with_ai(dna, days_passed) on the heap
EvolveWithAIOnHeap(h, d, days_passed, provider) ==
    LET prompt == CreateEvolutionPrompt(CurrentTraits(Deref(h, d)), days_passed, d.generation)
        asked == <<NameCall, GenerateCall(prompt, DefaultMaxTokens)>>
        parsed == ParseReply(provider.reply)
        ai == IF provider.reply.kind = "raise" THEN [heap |-> h, ret |-> Raise("ProviderError")]
              ELSE IF parsed.kind = "raise" THEN [heap |-> h, ret |-> parsed]
              ELSE ApplyEvolutionOnHeap(h, d, parsed.value)
    IN  IF provider.nameRaises
        THEN {[heap |-> h, ret |-> Raise("ProviderError"), providerLog |-> <<NameCall>>,
               fallbackLog |-> <<>>]}
        ELSE IF ai.ret.kind = "raise"
        THEN {[heap |-> f.heap, ret |-> Return(f.ret), providerLog |-> asked,
               fallbackLog |-> <<[dna |-> d, evolution_strength_tenths |-> FallbackStrengthTenths]>>] :
                 f \in GeneticsEvolveOnHeap(ai.heap, d, FallbackStrengthTenths)}
        ELSE {[heap |-> ai.heap, ret |-> ai.ret, providerLog |-> asked, fallbackLog |-> <<>>]}

(***************************************************************************)
(* Calls of _apply_evolution and evolve_with_ai on records held by         *)
(* reference.  The caller keeps the values of the record it passes         *)
(* (arg.before).                                                           *)
(***************************************************************************)
InitObjects ==
    /\ pc = "called"
    /\ \E v \in InitialDNAs :
          LET placed == StoreTraits(<<>>, v.traits, <<>>, 1)
          IN  /\ heap = placed.heap
              /\ dna = [v EXCEPT !.traits = placed.traits]
              /\ \/ /\ op = "apply"
                    /\ arg \in {[decision |-> d, before |-> v] : d \in ApplyDecisions}
                 \/ /\ op = "evolve"
                    /\ arg \in {[days_passed |-> 1, provider |-> Provider(n, r), before |-> v] :
                                  n \in BOOLEAN, r \in EvolveReplies}
    /\ ret = NoRet
    /\ providerLog = <<>>
    /\ fallbackLog = <<>>
    /\ calls = 1
    /\ rendered = <<>>

\* agent._apply_evolution(dna, arg.decision)
ApplyEvolutionOnHeapCall ==
    /\ pc = "called"
    /\ op = "apply"
    /\ LET outcome == ApplyEvolutionOnHeap(heap, dna, arg.decision)
       IN  /\ ret' = outcome.ret
           /\ heap' = outcome.heap
    /\ pc' = "returned"
    /\ UNCHANGED <<op, dna, arg, providerLog, fallbackLog, calls, rendered>>

\* agent.evolve_with_ai(dna, arg.days_passed)
EvolveWithAIOnHeapCall ==
    /\ pc = "called"
    /\ op = "evolve"
    /\ \E outcome \in EvolveWithAIOnHeap(heap, dna, arg.days_passed, arg.provider) :
          /\ ret' = outcome.ret
          /\ heap' = outcome.heap
          /\ providerLog' = outcome.providerLog
          /\ fallbackLog' = outcome.fallbackLog
    /\ pc' = "returned"
    /\ UNCHANGED <<op, dna, arg, calls, rendered>>

\* the caller passes the returned record to a next _apply_evolution call
ApplyAgainOnHeap ==
    /\ pc = "returned"
    /\ ret.kind = "return"
    /\ calls < MaxCalls
    /\ dna' = ret.value
    /\ op' = "apply"
    /\ arg' \in {[decision |-> d, before |-> Deref(heap, ret.value)] : d \in FollowUpDecisions}
    /\ ret' = NoRet
    /\ pc' = "called"
    /\ calls' = calls + 1
    /\ UNCHANGED <<providerLog, fallbackLog, rendered, heap>>

NextObjects == ApplyEvolutionOnHeapCall \/ EvolveWithAIOnHeapCall \/ ApplyAgainOnHeap

SpecObjects == InitObjects /\ [][NextObjects]_vars

\* the records of the heap runs are those of the runs on values
HeapAgreesWithValues ==
    pc = "returned" =>
        /\ op = "apply" =>
              /\ ret.kind = ApplyEvolution(arg.before, arg.decision).kind
              /\ ret.kind = "return" =>
                    Deref(heap, ret.value) = ApplyEvolution(arg.before, arg.decision).value
        /\ op = "evolve" =>
              \E o \in EvolveWithAI(arg.before, arg.days_passed, arg.provider) :
                  /\ o.ret.kind = ret.kind
                  /\ ret.kind = "return" => Deref(heap, ret.value) = o.ret.value
                  /\ Len(o.fallbackLog) = Len(fallbackLog)

\* C22: _apply_evolution and evolve_with_ai leave their input DNA unchanged
\* (traits, rarities and mutation count are as before the call, also when
\* some changes were applied or the call fell back), and the returned record
\* shares no Trait object with the input.
C22_InputKeptNothingShared ==
    (pc = "returned" /\ op \in {"apply", "evolve"}) =>
        /\ Deref(heap, dna) = arg.before
        /\ ret.kind = "return" => Refs(ret.value) \cap Refs(dna) = {}

\* C22 witness: a call applied one change and left the other categories as
\* they were, after an earlier call
C22_Witness ==
    /\ pc = "returned"
    /\ op = "apply"
    /\ calls = 2
    /\ ret.kind = "return"
    /\ ret.value.mutation_count = dna.mutation_count + 1
    /\ Cardinality({c \in TraitCategory : heap[ret.value.traits[c]] = heap[dna.traits[c]]}) = 5

====
